---- MODULE Spec2Model ----
(***************************************************************************)
(* Model of the Saika-to-Go transpiler pipeline of saika-m/saika-lang:     *)
(* lexer (internal/lexer), Pratt parser (internal/parser), code generator  *)
(* (internal/codegen) and the transpiler driver (internal/transpiler).     *)
(*                                                                         *)
(* Source text is a sequence of runes, each rune a one-character string.   *)
(* Two multi-byte runes are written as ASCII atoms: SaikaRune (U+6578, the *)
(* alternate function keyword, 3 bytes in UTF-8) and ArabicThree (U+0663,  *)
(* a Unicode decimal digit that strconv does not accept, 2 bytes).         *)
(* Lexer offsets count runes; RuneLen keeps the byte widths that           *)
(* len(literal) sees.  Token literals and AST names are rune sequences;    *)
(* generated Go text is a rune sequence as well.                           *)
(***************************************************************************)
EXTENDS Integers, Sequences, FiniteSets, TLC

\* Let([x \in {e} |-> b]) is b with x naming the value of e: a Go local
\* variable, assigned once
Let(f) == f[CHOOSE d \in DOMAIN f : TRUE]

\* ------------------------------------------------------------------------
\* Runes
\* ------------------------------------------------------------------------
Nul == "NUL"
SaikaRune == "U+6578"
ArabicThree == "U+0663"

AsciiLetters ==
  {"a","b","c","d","e","f","g","h","i","j","k","l","m","n","o","p","q","r",
   "s","t","u","v","w","x","y","z","A","B","C","D","E","F","G","H","I","J",
   "K","L","M","N","O","P","Q","R","S","T","U","V","W","X","Y","Z"}
AsciiDigits == {"0","1","2","3","4","5","6","7","8","9"}

RuneLen(r) == IF r = SaikaRune THEN 3 ELSE IF r = ArabicThree THEN 2 ELSE 1

RECURSIVE ByteLen(_)
ByteLen(s) == IF s = <<>> THEN 0 ELSE RuneLen(s[1]) + ByteLen(Tail(s))

RECURSIVE Str(_)
\* the runes of s as one string
Str(s) ==
  IF s = <<>> THEN ""
  ELSE IF Len(s) = 1 THEN s[1]
  ELSE Let([h \in {Len(s) \div 2} |->
        Str(SubSeq(s, 1, h)) \o Str(SubSeq(s, h + 1, Len(s)))])

isLetter(ch) == ch \in AsciiLetters \/ ch = SaikaRune \/ ch = "_"

isDigit(ch) == ch \in AsciiDigits \/ ch = ArabicThree

IsSpace(ch) == ch \in {" ", "\t", "\n", "\r"}

DigitVal(d) ==
  CASE d = "0" -> 0 [] d = "1" -> 1 [] d = "2" -> 2 [] d = "3" -> 3
    [] d = "4" -> 4 [] d = "5" -> 5 [] d = "6" -> 6 [] d = "7" -> 7
    [] d = "8" -> 8 [] d = "9" -> 9

DigitStr(n) ==
  CASE n = 0 -> "0" [] n = 1 -> "1" [] n = 2 -> "2" [] n = 3 -> "3"
    [] n = 4 -> "4" [] n = 5 -> "5" [] n = 6 -> "6" [] n = 7 -> "7"
    [] n = 8 -> "8" [] n = 9 -> "9"

\* ------------------------------------------------------------------------
\* Tokens (ast.Token, ast.Keywords)
\* ------------------------------------------------------------------------
Token(type, literal, line, column) ==
  [Type |-> type, Literal |-> literal, Line |-> line, Column |-> column]

ZeroToken == Token("", <<>>, 0, 0)

Keywords ==
  [w \in {"func", SaikaRune, "let", "var", "const", "true", "false", "if",
          "else", "return", "package", "import", "for", "range", "break",
          "continue", "struct", "interface", "map", "chan", "go", "select",
          "case", "default", "switch", "type"} |->
     CASE w = "func" -> "FUNCTION" [] w = SaikaRune -> "SAIKA_FUNC"
       [] w = "let" -> "LET" [] w = "var" -> "VAR" [] w = "const" -> "CONST"
       [] w = "true" -> "TRUE" [] w = "false" -> "FALSE"
       [] w = "if" -> "IF" [] w = "else" -> "ELSE" [] w = "return" -> "RETURN"
       [] w = "package" -> "PACKAGE" [] w = "import" -> "IMPORT"
       [] w = "for" -> "FOR" [] w = "range" -> "RANGE" [] w = "break" -> "BREAK"
       [] w = "continue" -> "CONTINUE" [] w = "struct" -> "STRUCT"
       [] w = "interface" -> "INTERFACE" [] w = "map" -> "MAP"
       [] w = "chan" -> "CHAN" [] w = "go" -> "GO" [] w = "select" -> "SELECT"
       [] w = "case" -> "CASE" [] w = "default" -> "DEFAULT"
       [] w = "switch" -> "SWITCH" [] w = "type" -> "TYPE"]

lookupIdent(ident) ==
  IF Str(ident) \in DOMAIN Keywords THEN Keywords[Str(ident)] ELSE "IDENT"

\* newToken builds a fresh struct: Line and Column are the zero value.
newToken(tokenType, ch) == Token(tokenType, <<ch>>, 0, 0)

\* ------------------------------------------------------------------------
\* Lexer (lexer.Lexer).  printed is the text the lexer writes with
\* fmt.Printf, kept with the lexer so that NextToken stays a function.
\* ------------------------------------------------------------------------
readChar(l) ==
  Let([l1 \in {IF l.readPosition >= Len(l.input)
              THEN [l EXCEPT !.ch = Nul]
              ELSE [l EXCEPT !.ch = l.input[l.readPosition + 1],
                             !.position = l.readPosition,
                             !.readPosition = l.readPosition + 1]} |->
   IF l1.ch = "\n"
       THEN [l1 EXCEPT !.line = l1.line + 1, !.column = 0]
       ELSE [l1 EXCEPT !.column = l1.column + 1]])

NewLexer(input) ==
  readChar([input |-> input, position |-> 0, readPosition |-> 0, ch |-> Nul,
            line |-> 1, column |-> 0, printed |-> <<>>])

peekChar(l) ==
  IF l.readPosition >= Len(l.input) THEN Nul ELSE l.input[l.readPosition + 1]

peekCharN(l, n) ==
  IF l.readPosition + n - 1 >= Len(l.input) THEN Nul
  ELSE l.input[l.readPosition + n]

Printf(l, kind, line, column) ==
  [l EXCEPT !.printed = Append(l.printed,
      [msg |-> kind, Line |-> line, Column |-> column])]

\* l.input[from:to] with rune offsets
Slice(l, from, to) == SubSeq(l.input, from + 1, to)

RECURSIVE skipWhitespace(_)
skipWhitespace(l) == IF IsSpace(l.ch) THEN skipWhitespace(readChar(l)) ELSE l

RECURSIVE skipLineRest(_)
skipLineRest(l) ==
  IF l.ch # "\n" /\ l.ch # Nul THEN skipLineRest(readChar(l)) ELSE l

skipSingleLineComment(l) == skipLineRest(readChar(readChar(l)))

RECURSIVE skipCommentBody(_)
skipCommentBody(l) ==
  IF l.ch = Nul THEN Printf(l, "unclosed comment", l.line, l.column)
  ELSE IF l.ch = "*" /\ peekChar(l) = "/" THEN readChar(readChar(l))
  ELSE skipCommentBody(readChar(l))

skipMultiLineComment(l) == skipCommentBody(readChar(readChar(l)))

RECURSIVE readIdentifierLoop(_, _)
readIdentifierLoop(l, position) ==
  IF isLetter(l.ch) \/ (l.position # position /\ isDigit(l.ch))
    THEN readIdentifierLoop(readChar(l), position)
    ELSE l

readIdentifier(l) ==
  Let([l1 \in {readIdentifierLoop(l, l.position)} |->
   [l |-> l1, lit |-> Slice(l1, l.position, l1.position)]])

RECURSIVE readDigits(_)
readDigits(l) == IF isDigit(l.ch) THEN readDigits(readChar(l)) ELSE l

EscapeSet == {"n", "r", "t", "\\", "\"", "'"}

RECURSIVE readStringLoop(_, _, _)
readStringLoop(l, startLine, startColumn) ==
  IF l.ch = "\"" \/ l.ch = Nul THEN l
  ELSE
    Let([l1 \in {IF l.ch = "\\"
                THEN Let([e \in {readChar(l)} |->
                      IF e.ch \in EscapeSet THEN e
                        ELSE Printf(e, "unknown escape sequence", e.line, e.column)])
                ELSE l} |->
     IF l1.ch = Nul
         THEN Printf(l1, "unterminated string literal", startLine, startColumn)
         ELSE readStringLoop(readChar(l1), startLine, startColumn)])

readString(l) ==
  Let([l0 \in {readChar(l)} |->
      Let([l1 \in {readStringLoop(l0, l.line, l.column)} |->
   [l |-> l1, lit |-> Slice(l1, l0.position, l1.position)]])])

readCharLiteral(l) ==
  Let([l0 \in {readChar(l)} |->
      Let([l1 \in {IF l0.ch = "\\"
              THEN Let([e \in {readChar(l0)} |->
                    readChar(IF e.ch \in EscapeSet THEN e
                               ELSE Printf(e, "unknown escape sequence", e.line, e.column))])
              ELSE IF l0.ch # Nul /\ l0.ch # "'" THEN readChar(l0) ELSE l0} |->
      Let([l2 \in {IF l1.ch # "'"
              THEN Printf(l1, "unterminated character literal", l.line, l.column)
              ELSE l1} |->
   [l |-> l2, lit |-> Slice(l2, l0.position, l2.position)]])])])

\* ------------------------------------------------------------------------
\* strconv as the lexer and parser use it (digit-led literals only)
\* ------------------------------------------------------------------------
RECURSIVE SpanDigits(_)
SpanDigits(s) ==
  IF s # <<>> /\ s[1] \in AsciiDigits THEN 1 + SpanDigits(Tail(s)) ELSE 0

RECURSIVE StripZeros(_)
StripZeros(s) == IF s # <<>> /\ s[1] = "0" THEN StripZeros(Tail(s)) ELSE s

Drop(s, n) == SubSeq(s, n + 1, Len(s))

RECURSIVE DigitsLess(_, _)
\* a < b for two digit strings of the same length
DigitsLess(a, b) ==
  IF a = <<>> THEN FALSE
  ELSE IF DigitVal(a[1]) # DigitVal(b[1]) THEN DigitVal(a[1]) < DigitVal(b[1])
  ELSE DigitsLess(Tail(a), Tail(b))

MaxInt64Digits ==
  <<"9","2","2","3","3","7","2","0","3","6","8","5","4","7","7","5","8","0","7">>

RECURSIVE ValueInBase(_, _, _)
ValueInBase(s, base, acc) ==
  IF s = <<>> THEN acc
  ELSE ValueInBase(Tail(s), base, acc * base + DigitVal(s[1]))

\* strconv.ParseInt(literal, 10, 64) succeeds
ParseInt10Ok(lit) ==
  /\ lit # <<>>
  /\ SpanDigits(lit) = Len(lit)
  /\ (Len(StripZeros(lit)) < 19
      \/ (Len(StripZeros(lit)) = 19
          /\ ~DigitsLess(MaxInt64Digits, StripZeros(lit))))

\* strconv.ParseInt(literal, 0, 64): a leading 0 selects base 8
ParseInt0Octal(lit) == Len(lit) > 1 /\ lit[1] = "0"

ParseInt0Ok(lit) ==
  /\ lit # <<>>
  /\ SpanDigits(lit) = Len(lit)
  /\ IF ParseInt0Octal(lit)
       THEN /\ \A i \in 1..Len(lit) : DigitVal(lit[i]) < 8
            /\ Len(StripZeros(lit)) < 22
       ELSE ParseInt10Ok(lit)

ParseInt0Value(lit) ==
  IF ParseInt0Octal(lit) THEN ValueInBase(Tail(lit), 8, 0)
  ELSE ValueInBase(lit, 10, 0)

\* strconv.ParseFloat(literal, 64) succeeds: digits [. digits] [e [sign]
\* digits] with a mantissa digit and, after e, an exponent digit; a value
\* of 1.8e308 or more is a range error (mantissas are compared on their
\* first two significant digits).
ParseFloatOk(lit) ==
  Let([n1 \in {SpanDigits(lit)} |->
      Let([r1 \in {Drop(lit, n1)} |->
      Let([dot \in {r1 # <<>> /\ r1[1] = "."} |->
      Let([n2 \in {IF dot THEN SpanDigits(Tail(r1)) ELSE 0} |->
      Let([r2 \in {IF dot THEN Drop(r1, n2 + 1) ELSE r1} |->
      Let([hasE \in {r2 # <<>> /\ r2[1] \in {"e", "E"}} |->
      Let([r3 \in {IF hasE THEN Tail(r2) ELSE r2} |->
      Let([sgn \in {IF hasE /\ r3 # <<>> /\ r3[1] \in {"+", "-"} THEN r3[1] ELSE "+"} |->
      Let([r4 \in {IF hasE /\ r3 # <<>> /\ r3[1] \in {"+", "-"} THEN Tail(r3) ELSE r3} |->
      Let([n3 \in {IF hasE THEN SpanDigits(r4) ELSE 0} |->
      Let([r5 \in {Drop(r4, n3)} |->
      Let([mant \in {StripZeros(SubSeq(lit, 1, n1) \o (IF dot THEN SubSeq(r1, 2, n2 + 1) ELSE <<>>))} |->
      Let([intSig \in {Len(StripZeros(SubSeq(lit, 1, n1)))} |->
      Let([fracZeros \in {IF dot THEN n2 - Len(StripZeros(SubSeq(r1, 2, n2 + 1))) ELSE 0} |->
      Let([expDigits \in {StripZeros(SubSeq(r4, 1, n3))} |->
      Let([expo \in {IF Len(expDigits) > 4 THEN 10000 ELSE ValueInBase(expDigits, 10, 0)} |->
      Let([mag \in {IF intSig > 0 THEN intSig - 1 + expo ELSE expo - fracZeros - 1} |->
      Let([big \in {mant # <<>> /\ (mag > 308 \/ (mag = 308 /\ (DigitVal(mant[1]) > 1 \/ (Len(mant) > 1 /\ DigitVal(mant[2]) > 7))))} |->
   n1 + n2 >= 1 /\ (hasE => n3 >= 1) /\ r5 = <<>> /\ ~(sgn = "+" /\ big)])])])])])])])])])])])])])])])])])])

\* ------------------------------------------------------------------------
\* readNumber and NextToken
\* ------------------------------------------------------------------------
readNumber(l) ==
  Let([position \in {l.position} |->
      Let([l1 \in {readDigits(l)} |->
      Let([frac \in {l1.ch = "." /\ isDigit(peekChar(l1))} |->
      Let([l2 \in {IF frac THEN readDigits(readChar(l1)) ELSE l1} |->
      Let([sci \in {l2.ch \in {"e", "E"} /\ (isDigit(peekChar(l2)) \/ (peekChar(l2) \in {"+", "-"} /\ isDigit(peekCharN(l2, 2))))} |->
      Let([l3 \in {IF sci
              THEN Let([e \in {readChar(l2)} |->
                    readDigits(IF e.ch \in {"+", "-"} THEN readChar(e) ELSE e)])
              ELSE l2} |->
      Let([isFloat \in {frac \/ sci} |->
      Let([literal \in {Slice(l3, position, l3.position)} |->
      Let([line \in {l3.line} |->
      Let([column \in {l3.column - ByteLen(literal)} |->
      Let([valid \in {IF isFloat THEN ParseFloatOk(literal) ELSE ParseInt10Ok(literal)} |->
      Let([type \in {IF ~valid THEN "ILLEGAL" ELSE IF isFloat THEN "FLOAT" ELSE "INT"} |->
   [l |-> l3, tok |-> Token(type, literal, line, column)]])])])])])])])])])])])])

\* tok = newToken(T, l.ch); l.readChar()
Tok1(l, type) == [l |-> readChar(l), tok |-> newToken(type, l.ch)]

\* ch := l.ch; l.readChar(); tok = Token{Type: T, Literal: ch + l.ch}; l.readChar()
Tok2(l, type) ==
  Let([l1 \in {readChar(l)} |->
   [l |-> readChar(l1), tok |-> Token(type, <<l.ch, l1.ch>>, 0, 0)]])

\* the three-rune operators <<= and >>=
Tok3(l, type) ==
  Let([l1 \in {readChar(l)} |->
      Let([l2 \in {readChar(l1)} |->
   [l |-> readChar(l2), tok |-> Token(type, <<l.ch, l1.ch, l2.ch>>, 0, 0)]])])

RECURSIVE NextToken(_)
NextToken(l0) ==
  Let([l \in {skipWhitespace(l0)} |->
      Let([c \in {l.ch} |->
      Let([p \in {peekChar(l)} |->
   CASE c = "=" -> IF p = "=" THEN Tok2(l, "==") ELSE Tok1(l, "=")
       [] c = "+" -> IF p = "=" THEN Tok2(l, "+=")
                     ELSE IF p = "+" THEN Tok2(l, "++") ELSE Tok1(l, "+")
       [] c = "-" -> IF p = "=" THEN Tok2(l, "-=")
                     ELSE IF p = "-" THEN Tok2(l, "--")
                     ELSE IF p = ">" THEN Tok2(l, "<-") ELSE Tok1(l, "-")
       [] c = "!" -> IF p = "=" THEN Tok2(l, "!=") ELSE Tok1(l, "!")
       [] c = "*" -> IF p = "=" THEN Tok2(l, "*=") ELSE Tok1(l, "*")
       [] c = "/" -> IF p = "/" THEN NextToken(skipSingleLineComment(l))
                     ELSE IF p = "*" THEN NextToken(skipMultiLineComment(l))
                     ELSE IF p = "=" THEN Tok2(l, "/=") ELSE Tok1(l, "/")
       [] c = "%" -> IF p = "=" THEN Tok2(l, "%=") ELSE Tok1(l, "%")
       [] c = "&" -> IF p = "=" THEN Tok2(l, "&=")
                     ELSE IF p = "&" THEN Tok2(l, "&&") ELSE Tok1(l, "&")
       [] c = "|" -> IF p = "=" THEN Tok2(l, "|=")
                     ELSE IF p = "|" THEN Tok2(l, "||") ELSE Tok1(l, "|")
       [] c = "^" -> IF p = "=" THEN Tok2(l, "^=") ELSE Tok1(l, "^")
       [] c = "<" -> IF p = "=" THEN Tok2(l, "<=")
                     ELSE IF p = "<"
                       THEN IF peekChar(readChar(l)) = "="
                              THEN Tok3(l, "<<=") ELSE Tok2(l, "<<")
                     ELSE IF p = "-" THEN Tok2(l, "<-") ELSE Tok1(l, "<")
       [] c = ">" -> IF p = "=" THEN Tok2(l, ">=")
                     ELSE IF p = ">"
                       THEN IF peekChar(readChar(l)) = "="
                              THEN Tok3(l, ">>=") ELSE Tok2(l, ">>")
                     ELSE Tok1(l, ">")
       [] c \in {".", ",", ";", ":", "(", ")", "{", "}", "[", "]"} -> Tok1(l, c)
       [] c = "\"" -> Let([r \in {readString(l)} |->
                       [l |-> readChar(r.l),
                          tok |-> Token("STRING", r.lit, l.line, l.column)]])
       [] c = "'" -> Let([r \in {readCharLiteral(l)} |->
                      [l |-> readChar(r.l),
                         tok |-> Token("CHAR", r.lit, l.line, l.column)]])
       [] c = Nul -> [l |-> readChar(l), tok |-> Token("EOF", <<>>, l.line, l.column)]
       [] OTHER ->
            IF isLetter(c)
              THEN Let([r \in {readIdentifier(l)} |->
                    [l |-> r.l,
                       tok |-> Token(lookupIdent(r.lit), r.lit, l.line, l.column)]])
            ELSE IF isDigit(c) THEN readNumber(l)
            ELSE Tok1(l, "ILLEGAL")])])])

\* ------------------------------------------------------------------------
\* fmt helpers
\* ------------------------------------------------------------------------
RECURSIVE NatToStr(_)
NatToStr(n) == IF n < 10 THEN DigitStr(n) ELSE NatToStr(n \div 10) \o DigitStr(n % 10)

\* fmt.Sprintf("%d", n)
IntToStr(n) == IF n < 0 THEN "-" \o NatToStr(0 - n) ELSE NatToStr(n)

RECURSIVE NatToRunes(_)
NatToRunes(n) ==
  IF n < 10 THEN <<DigitStr(n)>> ELSE NatToRunes(n \div 10) \o <<DigitStr(n % 10)>>

\* fmt.Sprintf("%d", n) as runes
IntToRunes(n) == IF n < 0 THEN <<"-">> \o NatToRunes(0 - n) ELSE NatToRunes(n)

RECURSIVE Join(_, _)
\* strings.Join over rune sequences
Join(ss, sep) ==
  IF ss = <<>> THEN <<>>
  ELSE IF Len(ss) = 1 THEN ss[1]
  ELSE ss[1] \o sep \o Join(Tail(ss), sep)

\* ------------------------------------------------------------------------
\* AST (package ast).  Nil is the nil interface value; NilPtr(t) is a nil
\* pointer of type t stored in an interface, which compares unequal to nil.
\* ------------------------------------------------------------------------
Nil == [kind |-> "nil"]
NilPtr(t) == [kind |-> "nilptr", type |-> t]
IsNil(n) == n.kind = "nil"
Position(line, column) == [Line |-> line, Column |-> column]

\* ------------------------------------------------------------------------
\* Parser (parser.Parser)
\* ------------------------------------------------------------------------
LOWEST == 1
ASSIGN == 2
LOGICAL_OR == 3
LOGICAL_AND == 4
EQUALS == 5
LESSGREATER == 6
BIT_OR == 7
BIT_XOR == 8
BIT_AND == 9
SHIFT == 10
SUM == 11
PRODUCT == 12
PREFIX == 13
POSTFIX == 14
CALL == 15
INDEX == 16
MEMBER == 17

AssignOps == {"=", "+=", "-=", "*=", "/=", "%=", "&=", "|=", "^=", "<<=", ">>="}
BinaryOps == {"+", "-", "*", "/", "%", "==", "!=", "<", ">", "<=", ">=",
              "&", "|", "^", "<<", ">>", "&&", "||"}

precedences ==
  [t \in AssignOps \cup BinaryOps \cup {"++", "--", "(", "[", "."} |->
     CASE t \in AssignOps -> ASSIGN
       [] t = "||" -> LOGICAL_OR
       [] t = "&&" -> LOGICAL_AND
       [] t \in {"==", "!="} -> EQUALS
       [] t \in {"<", ">", "<=", ">="} -> LESSGREATER
       [] t = "|" -> BIT_OR
       [] t = "^" -> BIT_XOR
       [] t = "&" -> BIT_AND
       [] t \in {"<<", ">>"} -> SHIFT
       [] t \in {"+", "-"} -> SUM
       [] t \in {"*", "/", "%"} -> PRODUCT
       [] t \in {"++", "--"} -> POSTFIX
       [] t = "(" -> CALL
       [] t = "[" -> INDEX
       [] t = "." -> MEMBER]

PrefixTypes == {"IDENT", "INT", "FLOAT", "STRING", "CHAR", "TRUE", "FALSE",
                "(", "[", "{", "!", "-", "+"}
InfixTypes == AssignOps \cup BinaryOps \cup {"(", "[", ".", "++", "--"}

nextToken(p) ==
  Let([r \in {NextToken(p.l)} |->
   [p EXCEPT !.curToken = p.peekToken, !.peekToken = r.tok, !.l = r.l]])

NewParser(l) ==
  nextToken(nextToken([l |-> l, curToken |-> ZeroToken, peekToken |-> ZeroToken,
                       errors |-> <<>>]))

curTokenIs(p, t) == p.curToken.Type = t
peekTokenIs(p, t) == p.peekToken.Type = t

peekPrecedence(p) ==
  IF p.peekToken.Type \in DOMAIN precedences
    THEN precedences[p.peekToken.Type] ELSE LOWEST

curPrecedence(p) ==
  IF p.curToken.Type \in DOMAIN precedences
    THEN precedences[p.curToken.Type] ELSE LOWEST

getPosition(p) == Position(p.curToken.Line, p.curToken.Column)

addError(p, msg) == [p EXCEPT !.errors = Append(p.errors, msg)]

peekError(p, t) ==
  addError(p, "Line " \o IntToStr(p.peekToken.Line) \o ":"
              \o IntToStr(p.peekToken.Column) \o " expected next token to be "
              \o t \o ", got " \o p.peekToken.Type \o " instead")

\* noPrefixParseFnError recording nothing
noPrefixParseFnSilent(p, t) == p

noPrefixParseFnError(p, t) ==
  addError(p, "no prefix parse function for " \o t \o " found")

expectPeek(p, t) ==
  IF peekTokenIs(p, t) THEN [p |-> nextToken(p), ok |-> TRUE]
  ELSE [p |-> peekError(p, t), ok |-> FALSE]

\* position of a token as "%d:%d"
At(tok) == IntToStr(tok.Line) \o ":" \o IntToStr(tok.Column)

Identifier(p) ==
  [kind |-> "Identifier", Token |-> p.curToken, Value |-> p.curToken.Literal,
   Position |-> getPosition(p)]

IdentifierType(p) ==
  [kind |-> "IdentifierType", Token |-> p.curToken, Name |-> p.curToken.Literal,
   Position |-> getPosition(p)]

parseIdentifier(p) == [p |-> p, n |-> Identifier(p)]

parseIntegerLiteral(p) ==
  IF ~ParseInt0Ok(p.curToken.Literal)
    THEN [p |-> addError(p, "could not parse \"" \o Str(p.curToken.Literal)
                            \o "\" as integer"),
          n |-> Nil]
    ELSE [p |-> p,
          n |-> [kind |-> "IntegerLiteral", Token |-> p.curToken,
                 Value |-> ParseInt0Value(p.curToken.Literal),
                 Position |-> getPosition(p)]]

\* The float64 value is kept as the literal that denotes it.
parseFloatLiteral(p) ==
  IF ~ParseFloatOk(p.curToken.Literal)
    THEN [p |-> addError(p, "could not parse \"" \o Str(p.curToken.Literal)
                            \o "\" as float"),
          n |-> Nil]
    ELSE [p |-> p,
          n |-> [kind |-> "FloatLiteral", Token |-> p.curToken,
                 Value |-> p.curToken.Literal, Position |-> getPosition(p)]]

parseStringLiteral(p) ==
  [p |-> p,
   n |-> [kind |-> "StringLiteral", Token |-> p.curToken,
          Value |-> p.curToken.Literal, Position |-> getPosition(p)]]

parseCharLiteral(p) ==
  [p |-> addError(p, "Character literals not yet implemented at " \o At(p.curToken)),
   n |-> Nil]

parseBooleanLiteral(p) ==
  [p |-> p,
   n |-> [kind |-> "BooleanLiteral", Token |-> p.curToken,
          Value |-> curTokenIs(p, "TRUE"), Position |-> getPosition(p)]]

parsePostfixExpression(p, left) ==
  [p |-> p,
   n |-> [kind |-> "UnaryExpression", Token |-> p.curToken,
          Operator |-> p.curToken.Literal, Right |-> left,
          Position |-> getPosition(p)]]

parseMemberExpression(p, object) ==
  Let([p1 \in {nextToken(p)} |->
   IF ~curTokenIs(p1, "IDENT")
       THEN [p |-> addError(p1, "expected identifier after dot, got "
                                \o p1.curToken.Type),
             n |-> Nil]
       ELSE [p |-> p1,
             n |-> [kind |-> "MemberExpression", Token |-> p.curToken,
                    Object |-> object, Property |-> Identifier(p1),
                    Position |-> getPosition(p)]]])

RECURSIVE parseExpression(_, _)
RECURSIVE parseInfixLoop(_, _, _)
RECURSIVE parseExpressionListRest(_, _)
RECURSIVE parseHashPairs(_, _)

\* the result's list is <<>> for both the empty and the nil slice
parseExpressionList(p, end) ==
  IF peekTokenIs(p, end) THEN [p |-> nextToken(p), list |-> <<>>]
  ELSE
    Let([first \in {parseExpression(nextToken(p), LOWEST)} |->
        Let([rest \in {parseExpressionListRest(first.p, <<first.n>>)} |->
        Let([e \in {expectPeek(rest.p, end)} |->
     IF ~e.ok THEN [p |-> e.p, list |-> <<>>]
       ELSE [p |-> e.p, list |-> rest.list]])])])

parseExpressionListRest(p, list) ==
  IF peekTokenIs(p, ",")
    THEN Let([r \in {parseExpression(nextToken(nextToken(p)), LOWEST)} |->
          parseExpressionListRest(r.p, Append(list, r.n))])
    ELSE [p |-> p, list |-> list]

parseGroupedExpression(p) ==
  Let([r \in {parseExpression(nextToken(p), LOWEST)} |->
      Let([e \in {expectPeek(r.p, ")")} |->
   IF ~e.ok THEN [p |-> e.p, n |-> Nil] ELSE [p |-> e.p, n |-> r.n]])])

parseArrayLiteral(p) ==
  Let([r \in {parseExpressionList(p, "]")} |->
   [p |-> r.p,
      n |-> [kind |-> "ArrayLiteral", Token |-> p.curToken,
             Elements |-> r.list, Position |-> getPosition(p)]]])

\* Pairs is a Go map keyed by node pointer: every parsed pair is a
\* separate entry; the model keeps them in insertion order.
parseHashLiteral(p) ==
  Let([r \in {parseHashPairs(p, <<>>)} |->
      Let([e \in {IF r.ok THEN expectPeek(r.p, "}") ELSE [p |-> r.p, ok |-> FALSE]} |->
   IF ~e.ok THEN [p |-> e.p, n |-> Nil]
     ELSE [p |-> e.p,
           n |-> [kind |-> "HashLiteral", Token |-> p.curToken,
                  Pairs |-> r.pairs, Position |-> getPosition(p)]]])])

parseHashPairs(p, pairs) ==
  IF peekTokenIs(p, "}") THEN [p |-> p, pairs |-> pairs, ok |-> TRUE]
  ELSE
    Let([k \in {parseExpression(nextToken(p), LOWEST)} |->
        Let([c \in {expectPeek(k.p, ":")} |->
     IF ~c.ok THEN [p |-> c.p, pairs |-> pairs, ok |-> FALSE]
       ELSE
         Let([v \in {parseExpression(nextToken(c.p), LOWEST)} |->
             Let([ps \in {Append(pairs, [key |-> k.n, value |-> v.n])} |->
          IF peekTokenIs(v.p, "}") THEN parseHashPairs(v.p, ps)
            ELSE Let([m \in {expectPeek(v.p, ",")} |->
                  IF ~m.ok THEN [p |-> m.p, pairs |-> ps, ok |-> FALSE]
                    ELSE parseHashPairs(m.p, ps)])])])])])

parsePrefixExpression(p) ==
  Let([r \in {parseExpression(nextToken(p), PREFIX)} |->
   [p |-> r.p,
      n |-> [kind |-> "UnaryExpression", Token |-> p.curToken,
             Operator |-> p.curToken.Literal, Right |-> r.n,
             Position |-> getPosition(p)]]])

parseInfixExpression(p, left) ==
  Let([r \in {parseExpression(nextToken(p), curPrecedence(p))} |->
   [p |-> r.p,
      n |-> [kind |-> "BinaryExpression", Token |-> p.curToken,
             Operator |-> p.curToken.Literal, Left |-> left, Right |-> r.n,
             Position |-> getPosition(p)]]])

parseAssignmentExpression(p, left) ==
  Let([r \in {parseExpression(nextToken(p), LOWEST)} |->
   [p |-> r.p,
      n |-> [kind |-> "AssignmentExpression", Token |-> p.curToken,
             Left |-> left, Operator |-> p.curToken.Literal, Right |-> r.n,
             Position |-> getPosition(p)]]])

parseCallExpression(p, function) ==
  Let([r \in {parseExpressionList(p, ")")} |->
   [p |-> r.p,
      n |-> [kind |-> "CallExpression", Token |-> p.curToken,
             Function |-> function, Arguments |-> r.list,
             Position |-> getPosition(p)]]])

parseIndexExpression(p, left) ==
  Let([r \in {parseExpression(nextToken(p), LOWEST)} |->
      Let([e \in {expectPeek(r.p, "]")} |->
   IF ~e.ok THEN [p |-> e.p, n |-> Nil]
     ELSE [p |-> e.p,
           n |-> [kind |-> "IndexExpression", Token |-> p.curToken,
                  Left |-> left, Index |-> r.n, Position |-> getPosition(p)]]])])

\* p.prefixParseFns[p.curToken.Type]()
prefixParseFn(p) ==
  Let([t \in {p.curToken.Type} |->
   CASE t = "IDENT" -> parseIdentifier(p)
       [] t = "INT" -> parseIntegerLiteral(p)
       [] t = "FLOAT" -> parseFloatLiteral(p)
       [] t = "STRING" -> parseStringLiteral(p)
       [] t = "CHAR" -> parseCharLiteral(p)
       [] t \in {"TRUE", "FALSE"} -> parseBooleanLiteral(p)
       [] t = "(" -> parseGroupedExpression(p)
       [] t = "[" -> parseArrayLiteral(p)
       [] t = "{" -> parseHashLiteral(p)
       [] t \in {"!", "-", "+"} -> parsePrefixExpression(p)])

\* p.infixParseFns[p.curToken.Type](left)
infixParseFn(p, left) ==
  Let([t \in {p.curToken.Type} |->
   CASE t \in BinaryOps -> parseInfixExpression(p, left)
       [] t \in AssignOps -> parseAssignmentExpression(p, left)
       [] t = "(" -> parseCallExpression(p, left)
       [] t = "[" -> parseIndexExpression(p, left)
       [] t = "." -> parseMemberExpression(p, left)
       [] t \in {"++", "--"} -> parsePostfixExpression(p, left)])

parseExpression(p, precedence) ==
  IF p.curToken.Type \notin PrefixTypes
    THEN [p |-> noPrefixParseFnError(p, p.curToken.Type), n |-> Nil]
    ELSE Let([left \in {prefixParseFn(p)} |->
          parseInfixLoop(left.p, left.n, precedence)])

parseInfixLoop(p, leftExp, precedence) ==
  IF ~peekTokenIs(p, ";") /\ precedence < peekPrecedence(p)
    THEN IF p.peekToken.Type \notin InfixTypes
           THEN [p |-> p, n |-> leftExp]
           ELSE Let([r \in {infixParseFn(nextToken(p), leftExp)} |->
                 parseInfixLoop(r.p, r.n, precedence)])
    ELSE [p |-> p, n |-> leftExp]

\* ------------------------------------------------------------------------
\* Statements
\* ------------------------------------------------------------------------
RECURSIVE parseStatement(_)
RECURSIVE parseBlockLoop(_, _)
RECURSIVE parseMoreParameters(_, _)
RECURSIVE parseStructFields(_, _)

\* if p.peekTokenIs(ast.SEMICOLON) { p.nextToken() }
skipSemicolon(p) == IF peekTokenIs(p, ";") THEN nextToken(p) ELSE p

parsePackageStatement(p) ==
  Let([e \in {expectPeek(p, "IDENT")} |->
   IF ~e.ok THEN [p |-> e.p, n |-> NilPtr("*ast.PackageStatement")]
     ELSE [p |-> skipSemicolon(e.p),
           n |-> [kind |-> "PackageStatement", Token |-> p.curToken,
                  Name |-> e.p.curToken.Literal, Position |-> getPosition(p)]]])

parseImportStatement(p) ==
  Let([hasAlias \in {peekTokenIs(p, "IDENT")} |->
      Let([p1 \in {IF hasAlias THEN nextToken(p) ELSE p} |->
      Let([alias \in {IF hasAlias THEN p1.curToken.Literal ELSE <<>>} |->
      Let([e \in {expectPeek(p1, "STRING")} |->
   IF ~e.ok THEN [p |-> e.p, n |-> NilPtr("*ast.ImportStatement")]
     ELSE [p |-> skipSemicolon(e.p),
           n |-> [kind |-> "ImportStatement", Token |-> p.curToken,
                  Path |-> e.p.curToken.Literal, Alias |-> alias,
                  Position |-> getPosition(p)]]])])])])

\* one parameter at the current token: a name and, if an identifier
\* follows, its type
parseParameter(p) ==
  Let([typed \in {peekTokenIs(p, "IDENT")} |->
      Let([p1 \in {IF typed THEN nextToken(p) ELSE p} |->
   [p |-> p1,
      n |-> [kind |-> "FunctionParameter", Name |-> Identifier(p),
             Type |-> IF typed THEN IdentifierType(p1) ELSE Nil,
             Position |-> getPosition(p)]]])])

parseMoreParameters(p, params) ==
  IF peekTokenIs(p, ",")
    THEN Let([r \in {parseParameter(nextToken(nextToken(p)))} |->
          parseMoreParameters(r.p, Append(params, r.n))])
    ELSE [p |-> p, params |-> params]

\* params is <<>> for both the empty and the nil slice
parseFunctionParameters(p) ==
  IF peekTokenIs(p, ")") THEN [p |-> nextToken(p), params |-> <<>>]
  ELSE
    Let([first \in {parseParameter(nextToken(p))} |->
        Let([rest \in {parseMoreParameters(first.p, <<first.n>>)} |->
        Let([e \in {expectPeek(rest.p, ")")} |->
     IF ~e.ok THEN [p |-> e.p, params |-> <<>>]
       ELSE [p |-> e.p, params |-> rest.params]])])])

parseBlockStatement(p) ==
  Let([r \in {parseBlockLoop(nextToken(p), <<>>)} |->
   [p |-> r.p,
      n |-> [kind |-> "BlockStatement", Token |-> p.curToken,
             Statements |-> r.stmts, Position |-> getPosition(p)]]])

parseBlockLoop(p, stmts) ==
  IF ~curTokenIs(p, "}") /\ ~curTokenIs(p, "EOF")
    THEN Let([r \in {parseStatement(p)} |->
          parseBlockLoop(nextToken(r.p),
                           IF ~IsNil(r.n) THEN Append(stmts, r.n) ELSE stmts)])
    ELSE [p |-> p, stmts |-> stmts]

parseFunctionStatement(p) ==
  Let([e1 \in {expectPeek(p, "IDENT")} |->
   IF ~e1.ok THEN [p |-> e1.p, n |-> NilPtr("*ast.FunctionStatement")]
     ELSE
       Let([name \in {Identifier(e1.p)} |->
           Let([e2 \in {expectPeek(e1.p, "(")} |->
        IF ~e2.ok THEN [p |-> e2.p, n |-> NilPtr("*ast.FunctionStatement")]
          ELSE
            Let([ps \in {parseFunctionParameters(e2.p)} |->
                Let([hasRet \in {peekTokenIs(ps.p, "IDENT")} |->
                Let([p3 \in {IF hasRet THEN nextToken(ps.p) ELSE ps.p} |->
                Let([ret \in {IF hasRet THEN IdentifierType(p3) ELSE Nil} |->
                Let([e3 \in {expectPeek(p3, "{")} |->
             IF ~e3.ok
                 THEN [p |-> e3.p, n |-> NilPtr("*ast.FunctionStatement")]
                 ELSE Let([b \in {parseBlockStatement(e3.p)} |->
                       [p |-> b.p,
                          n |-> [kind |-> "FunctionStatement",
                                 Token |-> p.curToken, Name |-> name,
                                 Parameters |-> ps.params, Body |-> b.n,
                                 ReturnType |-> ret,
                                 Position |-> getPosition(p)]]])])])])])])])])])

parseVariableStatement(p) ==
  Let([e \in {expectPeek(p, "IDENT")} |->
   IF ~e.ok THEN [p |-> e.p, n |-> NilPtr("*ast.VariableStatement")]
     ELSE
       Let([name \in {Identifier(e.p)} |->
           Let([typed \in {peekTokenIs(e.p, "IDENT")} |->
           Let([p1 \in {IF typed THEN nextToken(e.p) ELSE e.p} |->
           Let([type \in {IF typed THEN IdentifierType(p1) ELSE Nil} |->
           Let([hasValue \in {peekTokenIs(p1, "=")} |->
           Let([v \in {IF hasValue THEN parseExpression(nextToken(nextToken(p1)), LOWEST)
                ELSE [p |-> p1, n |-> Nil]} |->
        [p |-> skipSemicolon(v.p),
           n |-> [kind |-> "VariableStatement", Token |-> p.curToken,
                  Name |-> name, Type |-> type, Value |-> v.n,
                  Const |-> p.curToken.Type = "CONST",
                  Position |-> getPosition(p)]]])])])])])])])

parseReturnStatement(p) ==
  Let([p1 \in {nextToken(p)} |->
      Let([v \in {IF ~curTokenIs(p1, ";") /\ ~curTokenIs(p1, "}")
             THEN parseExpression(p1, LOWEST)
             ELSE [p |-> p1, n |-> Nil]} |->
   [p |-> skipSemicolon(v.p),
      n |-> [kind |-> "ReturnStatement", Token |-> p.curToken,
             Value |-> v.n, Position |-> getPosition(p)]]])])

parseIfStatement(p) ==
  Let([c \in {parseExpression(nextToken(p), LOWEST)} |->
      Let([e1 \in {expectPeek(c.p, "{")} |->
   IF ~e1.ok THEN [p |-> e1.p, n |-> NilPtr("*ast.IfStatement")]
     ELSE
       Let([cons \in {parseBlockStatement(e1.p)} |->
           Let([node \in {[kind |-> "IfStatement", Token |-> p.curToken,
                    Condition |-> c.n, Consequence |-> cons.n,
                    Alternative |-> Nil, Position |-> getPosition(p)]} |->
        IF peekTokenIs(cons.p, "ELSE")
            THEN Let([e2 \in {expectPeek(nextToken(cons.p), "{")} |->
                  IF ~e2.ok THEN [p |-> e2.p, n |-> NilPtr("*ast.IfStatement")]
                    ELSE Let([alt \in {parseBlockStatement(e2.p)} |->
                          [p |-> alt.p,
                             n |-> [node EXCEPT !.Alternative = alt.n]]])])
            ELSE [p |-> cons.p, n |-> node]])])])])

\* the tail shared by both range forms: p.nextToken() three times, the
\* collection expression, the opening brace and the body
parseRangeTail(p, token, position, key, value) ==
  Let([c \in {parseExpression(nextToken(nextToken(nextToken(p))), LOWEST)} |->
      Let([e \in {expectPeek(c.p, "{")} |->
   IF ~e.ok THEN [p |-> e.p, n |-> Nil]
     ELSE Let([b \in {parseBlockStatement(e.p)} |->
           [p |-> b.p,
              n |-> [kind |-> "RangeStatement", Token |-> token, Key |-> key,
                     Value |-> value, Collection |-> c.n, Body |-> b.n,
                     Position |-> position]]])])])

\* the classic loop, from the current token after `for`
parseForClauses(p, token, position) ==
  Let([i \in {IF ~curTokenIs(p, ";")
             THEN Let([s \in {parseStatement(p)} |->
                      Let([e \in {expectPeek(s.p, ";")} |->
                   [p |-> e.p, n |-> s.n, ok |-> e.ok]])])
             ELSE [p |-> nextToken(p), n |-> Nil, ok |-> TRUE]} |->
   IF ~i.ok THEN [p |-> i.p, n |-> Nil]
     ELSE
       Let([c \in {IF ~curTokenIs(i.p, ";")
                  THEN Let([x \in {parseExpression(i.p, LOWEST)} |->
                           Let([e \in {expectPeek(x.p, ";")} |->
                        [p |-> e.p, n |-> x.n, ok |-> e.ok]])])
                  ELSE [p |-> nextToken(i.p), n |-> Nil, ok |-> TRUE]} |->
        IF ~c.ok THEN [p |-> c.p, n |-> Nil]
          ELSE
            Let([t \in {IF ~curTokenIs(c.p, "{")
                       THEN Let([s \in {parseStatement(c.p)} |->
                                Let([e \in {expectPeek(s.p, "{")} |->
                             [p |-> e.p, n |-> s.n, ok |-> e.ok]])])
                       ELSE [p |-> c.p, n |-> Nil, ok |-> TRUE]} |->
             IF ~t.ok THEN [p |-> t.p, n |-> Nil]
               ELSE Let([b \in {parseBlockStatement(t.p)} |->
                     [p |-> b.p,
                        n |-> [kind |-> "ForStatement", Token |-> token,
                               Init |-> i.n, Condition |-> c.n, Post |-> t.n,
                               Body |-> b.n, Position |-> position]]])])])])

parseForStatement(p0) ==
  Let([token \in {p0.curToken} |->
      Let([position \in {getPosition(p0)} |->
      Let([p \in {nextToken(p0)} |->
   IF curTokenIs(p, "IDENT") /\ peekTokenIs(p, ",")
       THEN Let([key \in {Identifier(p)} |->
                Let([pv \in {nextToken(nextToken(p))} |->
                Let([value \in {Identifier(pv)} |->
                Let([e \in {expectPeek(pv, "=")} |->
             IF ~e.ok \/ ~peekTokenIs(e.p, "RANGE")
                 THEN [p |-> addError(e.p, "Expected := range at " \o At(e.p.peekToken)),
                       n |-> Nil]
                 ELSE parseRangeTail(e.p, token, position, key, value)])])])])
     ELSE IF curTokenIs(p, "IDENT") /\ peekTokenIs(p, "=") /\ peekTokenIs(p, "RANGE")
       THEN parseRangeTail(p, token, position, Nil, Identifier(p))
     ELSE parseForClauses(p, token, position)])])])

\* Fields is a Go map from field name to type: a repeated name overwrites
\* the earlier entry.  The model keeps the entries in insertion order.
SetField(fields, name, type) ==
  IF \E i \in 1..Len(fields) : fields[i].name = name
    THEN [i \in 1..Len(fields) |->
            IF fields[i].name = name THEN [name |-> name, type |-> type]
            ELSE fields[i]]
    ELSE Append(fields, [name |-> name, type |-> type])

parseStructFields(p, fields) ==
  IF ~curTokenIs(p, "}") /\ ~curTokenIs(p, "EOF")
    THEN IF ~curTokenIs(p, "IDENT")
           THEN [p |-> addError(p, "Expected field name at " \o At(p.curToken)),
                 fields |-> fields, ok |-> FALSE]
           ELSE Let([e \in {expectPeek(p, "IDENT")} |->
                 IF ~e.ok THEN [p |-> e.p, fields |-> fields, ok |-> FALSE]
                   ELSE parseStructFields(nextToken(e.p),
                          SetField(fields, p.curToken.Literal, IdentifierType(e.p)))])
    ELSE [p |-> p, fields |-> fields, ok |-> TRUE]

parseStructStatement(p) ==
  Let([named \in {peekTokenIs(p, "IDENT")} |->
      Let([p1 \in {IF named THEN nextToken(p) ELSE p} |->
      Let([name \in {IF named THEN Identifier(p1) ELSE Nil} |->
      Let([e \in {expectPeek(p1, "{")} |->
   IF ~e.ok THEN [p |-> e.p, n |-> NilPtr("*ast.StructLiteral")]
     ELSE Let([f \in {parseStructFields(nextToken(e.p), <<>>)} |->
           IF ~f.ok THEN [p |-> f.p, n |-> NilPtr("*ast.StructLiteral")]
             ELSE [p |-> f.p,
                   n |-> [kind |-> "StructLiteral", Token |-> p.curToken,
                          Name |-> name, Fields |-> f.fields,
                          Position |-> getPosition(p)]]])])])])])

parseTypeStatement(p) ==
  [p |-> addError(p, "Type declarations not yet implemented at " \o At(p.curToken)),
   n |-> Nil]

parseExpressionStatement(p) ==
  Let([r \in {parseExpression(p, LOWEST)} |->
   [p |-> skipSemicolon(r.p),
      n |-> [kind |-> "ExpressionStatement", Token |-> p.curToken,
             Expression |-> r.n, Position |-> getPosition(p)]]])

\* parseStatement without the case for the U+6578 keyword
parseStatementNoSaika(p) ==
  Let([t \in {p.curToken.Type} |->
   CASE t = "PACKAGE" -> parsePackageStatement(p)
       [] t = "IMPORT" -> parseImportStatement(p)
       [] t = "FUNCTION" -> parseFunctionStatement(p)
       [] t \in {"LET", "VAR", "CONST"} -> parseVariableStatement(p)
       [] t = "RETURN" -> parseReturnStatement(p)
       [] t = "IF" -> parseIfStatement(p)
       [] t = "FOR" -> parseForStatement(p)
       [] t = "STRUCT" -> parseStructStatement(p)
       [] t = "TYPE" -> parseTypeStatement(p)
       [] OTHER -> parseExpressionStatement(p)])

parseStatement(p) ==
  Let([t \in {p.curToken.Type} |->
   CASE t = "PACKAGE" -> parsePackageStatement(p)
       [] t = "IMPORT" -> parseImportStatement(p)
       [] t \in {"SAIKA_FUNC", "FUNCTION"} -> parseFunctionStatement(p)
       [] t \in {"LET", "VAR", "CONST"} -> parseVariableStatement(p)
       [] t = "RETURN" -> parseReturnStatement(p)
       [] t = "IF" -> parseIfStatement(p)
       [] t = "FOR" -> parseForStatement(p)
       [] t = "STRUCT" -> parseStructStatement(p)
       [] t = "TYPE" -> parseTypeStatement(p)
       [] OTHER -> parseExpressionStatement(p)])

\* one iteration of the loop of ParseProgram without the nextToken that
\* ends it
ParseProgramStepNoAdvance(p, statements) ==
  Let([r \in {parseStatement(p)} |->
   [p |-> r.p,
      statements |-> IF ~IsNil(r.n) THEN Append(statements, r.n) ELSE statements]])

\* one iteration of the loop of ParseProgram
ParseProgramStep(p, statements) ==
  Let([r \in {parseStatement(p)} |->
   [p |-> nextToken(r.p),
      statements |-> IF ~IsNil(r.n) THEN Append(statements, r.n) ELSE statements]])

\* ------------------------------------------------------------------------
\* Code generator (codegen.Generator).  panicked records a nil dereference,
\* which aborts the run; text produced after it is meaningless.  mapOrder is
\* no field of Generator: it is the order in which the Go runtime visits the
\* entries of a map in a range loop, which the language leaves unspecified
\* and the runtime varies from one loop to the next.
\* ------------------------------------------------------------------------
MaxFields == 2

\* the orders a range over a map of at most MaxFields entries (the fields of
\* a struct, the pairs of a hash literal) can take
MapOrders ==
  {o \in [1..MaxFields -> 1..MaxFields] :
     \A i \in 1..MaxFields, j \in 1..MaxFields : o[i] = o[j] => i = j}

NewGenerator ==
  [errors |-> <<>>, indentLevel |-> 0, currentPackage |-> <<>>,
   panicked |-> FALSE, mapOrder |-> [i \in 1..MaxFields |-> i]]

RECURSIVE MapVisit(_, _)
\* the entries order names, in that order
MapVisit(entries, order) ==
  IF order = <<>> THEN <<>>
  ELSE (IF order[1] <= Len(entries) THEN <<entries[order[1]]>> ELSE <<>>)
       \o MapVisit(entries, Tail(order))

\* `for k, v := range m`: the entries in the order the runtime visits them
\* (entries beyond MaxFields, which no input has, follow as they are)
MapRange(entries, order) ==
  MapVisit(entries, order) \o SubSeq(entries, Len(order) + 1, Len(entries))

RECURSIVE Repeat(_, _)
\* strings.Repeat
Repeat(str, n) == IF n <= 0 THEN <<>> ELSE str \o Repeat(str, n - 1)

indent(g) == Repeat(<<"\t">>, g.indentLevel)
increaseIndent(g) == [g EXCEPT !.indentLevel = g.indentLevel + 1]

\* decreaseIndent leaving the counter as it is
decreaseIndentNever(g) == g

decreaseIndent(g) ==
  IF g.indentLevel > 0 THEN [g EXCEPT !.indentLevel = g.indentLevel - 1] ELSE g

genError(g, message, pos) ==
  [g EXCEPT !.errors = Append(g.errors,
     "line " \o IntToStr(pos.Line) \o ", column " \o IntToStr(pos.Column)
     \o ": " \o message)]

Panic(g) == [g |-> [g EXCEPT !.panicked = TRUE], s |-> <<>>]

RECURSIVE Zeros(_)
Zeros(n) == IF n <= 0 THEN <<>> ELSE <<"0">> \o Zeros(n - 1)

RECURSIVE IncDigits(_)
\* the digit string plus one
IncDigits(d) ==
  IF d = <<>> THEN <<"1">>
  ELSE IF d[Len(d)] = "9" THEN IncDigits(SubSeq(d, 1, Len(d) - 1)) \o <<"0">>
  ELSE SubSeq(d, 1, Len(d) - 1) \o <<DigitStr(DigitVal(d[Len(d)]) + 1)>>

\* fmt.Sprintf("%f", v) for the value denoted by a literal that ParseFloat
\* accepted: six fraction digits, rounded on the seventh decimal digit.
FormatF(lit) ==
  Let([n1 \in {SpanDigits(lit)} |->
      Let([r1 \in {Drop(lit, n1)} |->
      Let([dot \in {r1 # <<>> /\ r1[1] = "."} |->
      Let([n2 \in {IF dot THEN SpanDigits(Tail(r1)) ELSE 0} |->
      Let([r2 \in {IF dot THEN Drop(r1, n2 + 1) ELSE r1} |->
      Let([hasE \in {r2 # <<>>} |->
      Let([r3 \in {IF hasE THEN Tail(r2) ELSE r2} |->
      Let([neg \in {r3 # <<>> /\ r3[1] = "-"} |->
      Let([r4 \in {IF r3 # <<>> /\ r3[1] \in {"+", "-"} THEN Tail(r3) ELSE r3} |->
      Let([e \in {ValueInBase(r4, 10, 0)} |->
      Let([digits \in {SubSeq(lit, 1, n1) \o (IF dot THEN SubSeq(r1, 2, n2 + 1) ELSE <<>>)} |->
      Let([pp \in {IF neg THEN n1 - e ELSE n1 + e} |->
      Let([all \in {Zeros(0 - pp) \o digits \o Zeros(pp - Len(digits)) \o Zeros(7)} |->
      Let([ip \in {IF pp > 0 THEN pp ELSE 0} |->
      Let([kept \in {SubSeq(all, 1, ip + 6)} |->
      Let([rounded \in {IF DigitVal(all[ip + 7]) >= 5 THEN IncDigits(kept) ELSE kept} |->
      Let([whole \in {StripZeros(SubSeq(rounded, 1, Len(rounded) - 6))} |->
   (IF whole = <<>> THEN <<"0">> ELSE whole) \o <<".">>
     \o SubSeq(rounded, Len(rounded) - 5, Len(rounded))])])])])])])])])])])])])])])])])])

RECURSIVE generateStatement(_, _)
RECURSIVE generateExpression(_, _)
RECURSIVE generateExpressions(_, _)
RECURSIVE generateTypeExpression(_, _)
RECURSIVE generateBlockBody(_, _)
RECURSIVE generateParameters(_, _)
RECURSIVE generateFields(_, _)
RECURSIVE generatePairs(_, _)

generatePackageStatement(g, stmt) ==
  [g |-> [g EXCEPT !.currentPackage = stmt.Name],
   s |-> <<"p", "a", "c", "k", "a", "g", "e", " ">> \o stmt.Name]

HasPrefixQuote(path) == path # <<>> /\ path[1] = "\""
HasSuffixQuote(path) == path # <<>> /\ path[Len(path)] = "\""

generateImportStatement(g, stmt) ==
  Let([path \in {IF ~HasPrefixQuote(stmt.Path) /\ ~HasSuffixQuote(stmt.Path)
                THEN <<"\"">> \o stmt.Path \o <<"\"">>
                ELSE stmt.Path} |->
   [g |-> g,
      s |-> IF stmt.Alias # <<>>
              THEN <<"i", "m", "p", "o", "r", "t", " ">> \o stmt.Alias \o <<" ">> \o path
              ELSE <<"i", "m", "p", "o", "r", "t", " ">> \o path]])

\* the list of rendered parameters
generateParameters(g, params) ==
  IF params = <<>> THEN [g |-> g, ss |-> <<>>]
  ELSE
    Let([q \in {params[1]} |->
        Let([t \in {IF ~IsNil(q.Type) THEN generateTypeExpression(g, q.Type)
             ELSE [g |-> g, s |-> <<>>]} |->
        Let([one \in {IF ~IsNil(q.Type) THEN q.Name.Value \o <<" ">> \o t.s
               ELSE q.Name.Value} |->
        Let([rest \in {generateParameters(t.g, Tail(params))} |->
     [g |-> rest.g, ss |-> <<one>> \o rest.ss]])])])])

generateBlockStatement(g, stmt) ==
  Let([b \in {generateBlockBody(increaseIndent(g), stmt.Statements)} |->
      Let([g2 \in {decreaseIndent(b.g)} |->
   [g |-> g2, s |-> <<"{", "\n">> \o b.s \o indent(g2) \o <<"}">>]])])

generateBlockBody(g, stmts) ==
  IF stmts = <<>> THEN [g |-> g, s |-> <<>>]
  ELSE Let([one \in {generateStatement(g, stmts[1])} |->
           Let([rest \in {generateBlockBody(one.g, Tail(stmts))} |->
        [g |-> rest.g, s |-> indent(g) \o one.s \o <<"\n">> \o rest.s]])])

\* generateFunctionStatement writing the keyword as the source spelled it
generateFunctionStatementKeepKeyword(g, stmt) ==
  Let([ps \in {generateParameters(g, stmt.Parameters)} |->
      Let([rt \in {IF ~IsNil(stmt.ReturnType)
              THEN generateTypeExpression(ps.g, stmt.ReturnType)
              ELSE [g |-> ps.g, s |-> <<>>]} |->
      Let([b \in {generateBlockStatement(rt.g, stmt.Body)} |->
   [g |-> b.g,
      s |-> stmt.Token.Literal \o <<" ">> \o stmt.Name.Value \o <<"(">>
            \o Join(ps.ss, <<",", " ">>) \o <<")">>
            \o (IF ~IsNil(stmt.ReturnType) THEN <<" ">> \o rt.s ELSE <<>>)
            \o <<" ">> \o b.s]])])])

generateFunctionStatement(g, stmt) ==
  Let([ps \in {generateParameters(g, stmt.Parameters)} |->
      Let([rt \in {IF ~IsNil(stmt.ReturnType)
              THEN generateTypeExpression(ps.g, stmt.ReturnType)
              ELSE [g |-> ps.g, s |-> <<>>]} |->
      Let([b \in {generateBlockStatement(rt.g, stmt.Body)} |->
   [g |-> b.g,
      s |-> <<"f", "u", "n", "c", " ">> \o stmt.Name.Value \o <<"(">> \o Join(ps.ss, <<",", " ">>) \o <<")">>
            \o (IF ~IsNil(stmt.ReturnType) THEN <<" ">> \o rt.s ELSE <<>>)
            \o <<" ">> \o b.s]])])])

generateVariableStatement(g, stmt) ==
  Let([t \in {IF ~IsNil(stmt.Type) THEN generateTypeExpression(g, stmt.Type)
           ELSE [g |-> g, s |-> <<>>]} |->
      Let([v \in {IF ~IsNil(stmt.Value) THEN generateExpression(t.g, stmt.Value)
           ELSE [g |-> t.g, s |-> <<>>]} |->
   [g |-> v.g,
      s |-> (IF stmt.Const THEN <<"c", "o", "n", "s", "t", " ">> ELSE <<"v", "a", "r", " ">>) \o stmt.Name.Value
            \o (IF ~IsNil(stmt.Type) THEN <<" ">> \o t.s ELSE <<>>)
            \o (IF ~IsNil(stmt.Value) THEN <<" ", "=", " ">> \o v.s ELSE <<>>)]])])

generateReturnStatement(g, stmt) ==
  IF ~IsNil(stmt.Value)
    THEN Let([v \in {generateExpression(g, stmt.Value)} |->
          [g |-> v.g, s |-> <<"r", "e", "t", "u", "r", "n", " ">> \o v.s]])
    ELSE [g |-> g, s |-> <<"r", "e", "t", "u", "r", "n">>]

generateIfStatement(g, stmt) ==
  Let([c \in {generateExpression(g, stmt.Condition)} |->
      Let([b \in {generateBlockStatement(c.g, stmt.Consequence)} |->
      Let([a \in {IF ~IsNil(stmt.Alternative)
             THEN generateBlockStatement(b.g, stmt.Alternative)
             ELSE [g |-> b.g, s |-> <<>>]} |->
   [g |-> a.g,
      s |-> <<"i", "f", " ">> \o c.s \o <<" ">> \o b.s
            \o (IF ~IsNil(stmt.Alternative) THEN <<" ", "e", "l", "s", "e", " ">> \o a.s ELSE <<>>)]])])])

generateForStatement(g, stmt) ==
  Let([i \in {IF ~IsNil(stmt.Init) THEN generateStatement(g, stmt.Init)
           ELSE [g |-> g, s |-> <<>>]} |->
      Let([c \in {IF ~IsNil(stmt.Condition) THEN generateExpression(i.g, stmt.Condition)
           ELSE [g |-> i.g, s |-> <<>>]} |->
      Let([t \in {IF ~IsNil(stmt.Post) THEN generateStatement(c.g, stmt.Post)
           ELSE [g |-> c.g, s |-> <<>>]} |->
      Let([b \in {generateBlockStatement(t.g, stmt.Body)} |->
   [g |-> b.g,
      s |-> <<"f", "o", "r", " ">> \o i.s \o <<";", " ">> \o c.s \o <<";", " ">> \o t.s \o <<" ">> \o b.s]])])])])

generateRangeStatement(g, stmt) ==
  Let([c \in {generateExpression(g, stmt.Collection)} |->
      Let([b \in {generateBlockStatement(c.g, stmt.Body)} |->
      Let([head \in {IF ~IsNil(stmt.Key)
                THEN stmt.Key.Value
                     \o (IF ~IsNil(stmt.Value) THEN <<",", " ">> \o stmt.Value.Value
                         ELSE <<>>)
                     \o <<" ", ":", "=", " ">>
                ELSE <<>>} |->
   [g |-> b.g, s |-> <<"f", "o", "r", " ">> \o head \o <<"r", "a", "n", "g", "e", " ">> \o c.s \o <<" ">> \o b.s]])])])

\* one line per entry handed over
generateFields(g, fields) ==
  IF fields = <<>> THEN [g |-> g, s |-> <<>>]
  ELSE Let([t \in {generateTypeExpression(g, fields[1].type)} |->
           Let([rest \in {generateFields(t.g, Tail(fields))} |->
        [g |-> rest.g,
           s |-> indent(g) \o fields[1].name \o <<" ">> \o t.s \o <<"\n">> \o rest.s]])])

generateStructStatement(g, stmt) ==
  IF stmt.kind = "nilptr" THEN Panic(g)
  ELSE IF stmt.kind # "StructLiteral"
    THEN [g |-> genError(g, "expected StructLiteral, got *ast." \o stmt.kind,
                         stmt.Position),
          s |-> <<>>]
  ELSE
    Let([f \in {generateFields(increaseIndent(g),
                               MapRange(stmt.Fields, g.mapOrder))} |->
        Let([g2 \in {decreaseIndent(f.g)} |->
     [g |-> g2,
        s |-> (IF ~IsNil(stmt.Name) THEN <<"t", "y", "p", "e", " ">> \o stmt.Name.Value \o <<" ">>
               ELSE <<>>)
              \o <<"s", "t", "r", "u", "c", "t", " ", "{", "\n">> \o f.s \o indent(g2) \o <<"}">>]])])

generateExpressionStatement(g, stmt) == generateExpression(g, stmt.Expression)

generateStatement(g, stmt) ==
  Let([k \in {stmt.kind} |->
   CASE k \in {"nil", "nilptr"} -> Panic(g)
       [] k = "PackageStatement" -> generatePackageStatement(g, stmt)
       [] k = "ImportStatement" -> generateImportStatement(g, stmt)
       [] k = "FunctionStatement" -> generateFunctionStatement(g, stmt)
       [] k = "VariableStatement" -> generateVariableStatement(g, stmt)
       [] k = "ReturnStatement" -> generateReturnStatement(g, stmt)
       [] k = "IfStatement" -> generateIfStatement(g, stmt)
       [] k = "ForStatement" -> generateForStatement(g, stmt)
       [] k = "RangeStatement" -> generateRangeStatement(g, stmt)
       [] k = "ExpressionStatement" -> generateExpressionStatement(g, stmt)
       [] k = "StructLiteral" -> generateStructStatement(g, stmt)
       [] OTHER -> [g |-> genError(g, "unsupported statement type: *ast." \o k,
                                   stmt.Position),
                    s |-> <<>>]])

generateTypeExpression(g, expr) ==
  Let([k \in {expr.kind} |->
   CASE k \in {"nil", "nilptr"} -> Panic(g)
       [] k = "IdentifierType" -> [g |-> g, s |-> expr.Name]
       [] k = "ArrayType" ->
            Let([e \in {generateTypeExpression(g, expr.ElementType)} |->
             [g |-> e.g, s |-> <<"[", "]">> \o e.s]])
       [] k = "MapType" ->
            Let([kt \in {generateTypeExpression(g, expr.KeyType)} |->
                Let([vt \in {generateTypeExpression(kt.g, expr.ValueType)} |->
             [g |-> vt.g, s |-> <<"m", "a", "p", "[">> \o kt.s \o <<"]">> \o vt.s]])])
       [] k = "StructLiteral" -> generateStructStatement(g, expr)
       [] OTHER -> [g |-> genError(g, "unsupported type expression: *ast." \o k,
                                   expr.Position),
                    s |-> <<>>]])

\* the rendered expressions of a list, in order
generateExpressions(g, list) ==
  IF list = <<>> THEN [g |-> g, ss |-> <<>>]
  ELSE Let([one \in {generateExpression(g, list[1])} |->
           Let([rest \in {generateExpressions(one.g, Tail(list))} |->
        [g |-> rest.g, ss |-> <<one.s>> \o rest.ss]])])

generateArrayLiteral(g, expr) ==
  Let([es \in {generateExpressions(g, expr.Elements)} |->
   [g |-> es.g, s |-> <<"[", "]", "i", "n", "t", "e", "r", "f", "a", "c", "e", "{", "}", "{">> \o Join(es.ss, <<",", " ">>) \o <<"}">>]])

\* the rendered key: value pairs, in the order the model keeps the map
generatePairs(g, pairs) ==
  IF pairs = <<>> THEN [g |-> g, ss |-> <<>>]
  ELSE Let([k \in {generateExpression(g, pairs[1].key)} |->
           Let([v \in {generateExpression(k.g, pairs[1].value)} |->
           Let([rest \in {generatePairs(v.g, Tail(pairs))} |->
        [g |-> rest.g, ss |-> <<k.s \o <<":", " ">> \o v.s>> \o rest.ss]])])])

generateHashLiteral(g, expr) ==
  Let([ps \in {generatePairs(g, MapRange(expr.Pairs, g.mapOrder))} |->
   [g |-> ps.g, s |-> <<"m", "a", "p", "[", "s", "t", "r", "i", "n", "g", "]", "i", "n", "t", "e", "r", "f", "a", "c", "e", "{", "}", "{">> \o Join(ps.ss, <<",", " ">>) \o <<"}">>]])

generateUnaryExpression(g, expr) ==
  Let([r \in {generateExpression(g, expr.Right)} |->
   IF expr.Token.Type \in {"++", "--"}
       THEN [g |-> r.g, s |-> r.s \o expr.Operator]
       ELSE [g |-> r.g, s |-> expr.Operator \o r.s]])

generateBinaryExpression(g, expr) ==
  Let([l \in {generateExpression(g, expr.Left)} |->
      Let([r \in {generateExpression(l.g, expr.Right)} |->
   [g |-> r.g,
      s |-> <<"(">> \o l.s \o <<" ">> \o expr.Operator \o <<" ">> \o r.s \o <<")">>]])])

generateAssignmentExpression(g, expr) ==
  Let([l \in {generateExpression(g, expr.Left)} |->
      Let([r \in {generateExpression(l.g, expr.Right)} |->
   [g |-> r.g, s |-> l.s \o <<" ">> \o expr.Operator \o <<" ">> \o r.s]])])

generateMemberExpression(g, expr) ==
  Let([o \in {generateExpression(g, expr.Object)} |->
      Let([q \in {generateExpression(o.g, expr.Property)} |->
   [g |-> q.g, s |-> o.s \o <<".">> \o q.s]])])

generateIndexExpression(g, expr) ==
  Let([l \in {generateExpression(g, expr.Left)} |->
      Let([i \in {generateExpression(l.g, expr.Index)} |->
   [g |-> i.g, s |-> l.s \o <<"[">> \o i.s \o <<"]">>]])])

generateCallExpression(g, expr) ==
  Let([as \in {generateExpressions(g, expr.Arguments)} |->
      Let([f \in {generateExpression(as.g, expr.Function)} |->
   [g |-> f.g, s |-> f.s \o <<"(">> \o Join(as.ss, <<",", " ">>) \o <<")">>]])])

generateExpression(g, expr) ==
  Let([k \in {expr.kind} |->
   CASE k \in {"nil", "nilptr"} -> Panic(g)
       [] k = "Identifier" -> [g |-> g, s |-> expr.Value]
       [] k = "IntegerLiteral" -> [g |-> g, s |-> IntToRunes(expr.Value)]
       [] k = "FloatLiteral" -> [g |-> g, s |-> FormatF(expr.Value)]
       [] k = "StringLiteral" -> [g |-> g, s |-> <<"\"">> \o expr.Value \o <<"\"">>]
       [] k = "BooleanLiteral" ->
            [g |-> g, s |-> IF expr.Value THEN <<"t", "r", "u", "e">> ELSE <<"f", "a", "l", "s", "e">>]
       [] k = "ArrayLiteral" -> generateArrayLiteral(g, expr)
       [] k = "HashLiteral" -> generateHashLiteral(g, expr)
       [] k = "UnaryExpression" -> generateUnaryExpression(g, expr)
       [] k = "BinaryExpression" -> generateBinaryExpression(g, expr)
       [] k = "AssignmentExpression" -> generateAssignmentExpression(g, expr)
       [] k = "MemberExpression" -> generateMemberExpression(g, expr)
       [] k = "IndexExpression" -> generateIndexExpression(g, expr)
       [] k = "CallExpression" -> generateCallExpression(g, expr)
       [] OTHER -> [g |-> genError(g, "unsupported expression type: *ast." \o k,
                                   expr.Position),
                    s |-> <<>>]])

\* one iteration of the loop of Generate: the text the statement adds
GenerateStep(g, stmt) ==
  Let([r \in {generateStatement(g, stmt)} |->
   [g |-> r.g, s |-> IF r.s # <<>> THEN r.s \o <<"\n">> ELSE <<>>]])

\* ------------------------------------------------------------------------
\* The whole run as a function of the source text (transpiler.Transpiler)
\* ------------------------------------------------------------------------
RECURSIVE ParseProgramLoop(_, _)
ParseProgramLoop(p, statements) ==
  IF p.curToken.Type # "EOF"
    THEN Let([r \in {ParseProgramStep(p, statements)} |->
          ParseProgramLoop(r.p, r.statements)])
    ELSE [p |-> p, statements |-> statements]

ParseProgram(p) == ParseProgramLoop(p, <<>>)

RECURSIVE GenerateLoop(_, _)
GenerateLoop(g, stmts) ==
  IF stmts = <<>> THEN [g |-> g, s |-> <<>>]
  ELSE Let([one \in {GenerateStep(g, stmts[1])} |->
           Let([rest \in {GenerateLoop(one.g, Tail(stmts))} |->
        [g |-> rest.g, s |-> one.s \o rest.s]])])

Generate(statements) == GenerateLoop(NewGenerator, statements)

\* what TranspileWithPath hands back: the result's GoCode and Errors, whether
\* the returned error is non-nil, and whether the run died in a panic
Result(code, errors, err, panicked) ==
  [GoCode |-> code, Errors |-> errors, err |-> err, panicked |-> panicked]

\* the run as a function of the source: for programs in which no struct
\* and no hash literal has two or more entries, where the order of a map
\* range does not show
TranspileWithPath(saikaCode) ==
  Let([r \in {ParseProgram(NewParser(NewLexer(saikaCode)))} |->
   IF Len(r.p.errors) > 0 THEN Result(<<>>, r.p.errors, TRUE, FALSE)
     ELSE Let([o \in {Generate(r.statements)} |->
           IF o.g.panicked THEN Result(<<>>, <<>>, FALSE, TRUE)
             ELSE IF Len(o.g.errors) > 0 THEN Result(<<>>, o.g.errors, TRUE, FALSE)
             ELSE Result(o.s, <<>>, FALSE, FALSE)])])

\* ------------------------------------------------------------------------
\* Source texts
\* ------------------------------------------------------------------------
MaxDecls == 2
MaxLexLen == 3
MaxEofCalls == 2
MaxDigits == 3

\* what follows a text: nothing (end of input) or a line break
Terminators == {<<>>, <<"\n">>}

FuncKw == <<"f", "u", "n", "c">>
SaikaKw == <<SaikaRune>>

\* for i := 0; i < 10; i++ { }
SrcForLoop == <<"f", "o", "r", " ", "i", " ", ":", "=", " ", "0", ";", " ", "i", " ", "<", " ", "1", "0", ";", " ", "i", "+", "+", " ", "{", " ", "}">>

\* package main / import "fmt" / <kw> main() { fmt.Println("Hello") }
SrcHello(kw) ==
  <<"p", "a", "c", "k", "a", "g", "e", " ", "m", "a", "i", "n", "\n", "i", "m", "p", "o", "r", "t", " ", "\"", "f", "m", "t", "\"", "\n">>
  \o kw \o <<" ", "m", "a", "i", "n", "(", ")", " ", "{", " ", "f", "m", "t", ".", "P", "r", "i", "n", "t", "l", "n", "(", "\"", "H", "e", "l", "l", "o", "\"", ")", " ", "}">>

\* let x = 1 + 2 * 3
SrcLet == <<"l", "e", "t", " ", "x", " ", "=", " ", "1", " ", "+", " ", "2", " ", "*", " ", "3">>

\* the runes of an operator
OpRunes(op) ==
  CASE op = "+" -> <<"+">>
       [] op = "-" -> <<"-">>
       [] op = "*" -> <<"*">>
       [] op = "/" -> <<"/">>
       [] op = "%" -> <<"%">>
       [] op = "==" -> <<"=", "=">>
       [] op = "!=" -> <<"!", "=">>
       [] op = "<" -> <<"<">>
       [] op = ">" -> <<">">>
       [] op = "<=" -> <<"<", "=">>
       [] op = ">=" -> <<">", "=">>
       [] op = "&" -> <<"&">>
       [] op = "|" -> <<"|">>
       [] op = "^" -> <<"^">>
       [] op = "<<" -> <<"<", "<">>
       [] op = ">>" -> <<">", ">">>
       [] op = "&&" -> <<"&", "&">>
       [] op = "||" -> <<"|", "|">>
       [] op = "=" -> <<"=">>
       [] op = "+=" -> <<"+", "=">>
       [] op = "-=" -> <<"-", "=">>
       [] op = "*=" -> <<"*", "=">>
       [] op = "/=" -> <<"/", "=">>
       [] op = "%=" -> <<"%", "=">>
       [] op = "&=" -> <<"&", "=">>
       [] op = "|=" -> <<"|", "=">>
       [] op = "^=" -> <<"^", "=">>
       [] op = "<<=" -> <<"<", "<", "=">>
       [] op = ">>=" -> <<">", ">", "=">>

\* a op1 b op2 c
ExprSrc(op1, op2) ==
  <<"a", " ">> \o OpRunes(op1) \o <<" ", "b", " ">> \o OpRunes(op2) \o <<" ", "c">>

AllOps == BinaryOps \cup AssignOps

\* function declarations in either spelling
DeclSrc(d) ==
  IF d.shape = "empty"
    THEN d.kw \o <<" ", "f", "(", ")", " ", "{", " ", "}">>
    ELSE d.kw \o <<" ", "g", "(", "a", " ", "i", "n", "t", ")", " ", "i", "n", "t", " ", "{", " ", "r", "e", "t", "u", "r", "n", " ", "a", " ", "}">>

DeclChoices == [shape : {"empty", "params"}, kw : {FuncKw, SaikaKw}]

FnSpecs == UNION {[1..k -> DeclChoices] : k \in 1..MaxDecls}

RECURSIVE FnSrc(_)
\* the declarations of a spec, one per line
FnSrc(spec) ==
  IF Len(spec) = 1 THEN DeclSrc(spec[1])
  ELSE DeclSrc(spec[1]) \o <<"\n">> \o FnSrc(Tail(spec))

\* the specs that differ from spec only in the spelling of the keywords
Respellings(spec) ==
  {s \in [1..Len(spec) -> DeclChoices] :
     \A i \in 1..Len(spec) : s[i].shape = spec[i].shape}

\* U+6578 main( { }
SrcMissingParen == <<SaikaRune, " ", "m", "a", "i", "n", "(", " ", "{", " ", "}">>

\* statements that fail with a diagnostic: func f(   x.   )
MalformedStmts ==
  {<<"f", "u", "n", "c", " ", "f", "(">>, <<"x", ".">>, <<")">>}

\* well-formed top-level statements and the kind of node each one is
WellFormedStmts ==
  {[src |-> <<"p", "a", "c", "k", "a", "g", "e", " ", "x">>,
    kind |-> "PackageStatement"],
   [src |-> <<"i", "m", "p", "o", "r", "t", " ", "\"", "f", "m", "t", "\"">>,
    kind |-> "ImportStatement"],
   [src |-> <<"f", "u", "n", "c", " ", "g", "(", ")", " ", "{", " ", "}">>,
    kind |-> "FunctionStatement"]}

\* a malformed statement on the first line, a well-formed one on the second
RecoverySrc(m, w) == m \o <<"\n">> \o w.src \o <<"\n">>

\* one statement of each kind: package, import, variable, return,
\* expression, function, if, for, struct
StmtForms ==
  {<<"p", "a", "c", "k", "a", "g", "e", " ", "x">>,
   <<"i", "m", "p", "o", "r", "t", " ", "\"", "f", "m", "t", "\"">>,
   <<"l", "e", "t", " ", "x", " ", "=", " ", "1">>,
   <<"r", "e", "t", "u", "r", "n", " ", "x">>,
   <<"f", "(", "x", ")">>,
   <<"f", "u", "n", "c", " ", "g", "(", ")", " ", "{", " ", "}">>,
   <<"i", "f", " ", "x", " ", "{", " ", "}">>,
   <<"f", "o", "r", " ", "x", " ", "{", " ", "}">>,
   <<"s", "t", "r", "u", "c", "t", " ", "P", " ", "{", " ", "x", " ", "i", "n", "t", " ", "}">>}

\* the statement on a line of its own, followed by `;` or not, at top level
\* or as the body of func f() { }
StmtSrc(st, semi, inBlock) ==
  (IF inBlock THEN <<"f", "u", "n", "c", " ", "f", "(", ")", " ", "{", "\n">>
   ELSE <<>>)
  \o st \o (IF semi THEN <<";">> ELSE <<>>)
  \o (IF inBlock THEN <<"\n", "}", "\n">> ELSE <<"\n">>)

\* for <init>; <cond>; <post> { } with init `i = 0`, cond `i < n` and post
\* `i++`, each written or left empty
ForSrc(hasInit, hasCond, hasPost) ==
  <<"f", "o", "r", " ">>
  \o (IF hasInit THEN <<"i", " ", "=", " ", "0">> ELSE <<>>) \o <<";", " ">>
  \o (IF hasCond THEN <<"i", " ", "<", " ", "n">> ELSE <<>>) \o <<";", " ">>
  \o (IF hasPost THEN <<"i", "+", "+", " ">> ELSE <<>>)
  \o <<"{", " ", "}", "\n">>

\* for i < n { }
SrcWhileLoop ==
  <<"f", "o", "r", " ", "i", " ", "<", " ", "n", " ", "{", " ", "}", "\n">>

\* for { }
SrcBareLoop == <<"f", "o", "r", " ", "{", " ", "}", "\n">>

\* for k, v := range e { }
SrcRangeKeyValue ==
  <<"f", "o", "r", " ", "k", ",", " ", "v", " ", ":", "=", " ", "r", "a", "n", "g", "e", " ", "e", " ", "{", " ", "}", "\n">>

\* for v := range e { }
SrcRangeValue ==
  <<"f", "o", "r", " ", "v", " ", ":", "=", " ", "r", "a", "n", "g", "e", " ", "e", " ", "{", " ", "}", "\n">>

\* for let i = 0; ; i++ { }
SrcForLet ==
  <<"f", "o", "r", " ", "l", "e", "t", " ", "i", " ", "=", " ", "0", ";", " ", ";", " ", "i", "+", "+", " ", "{", " ", "}", "\n">>

\* for var i = 0; ; { }
SrcForVar ==
  <<"f", "o", "r", " ", "v", "a", "r", " ", "i", " ", "=", " ", "0", ";", " ", ";", " ", "{", " ", "}", "\n">>

\* the i-th field of a struct: f1 int, f2 int, ...
FieldName(i) == <<"f">> \o NatToRunes(i)
FieldSrc(i) == FieldName(i) \o <<" ", "i", "n", "t">>

\* what separates two fields: a line break, a comma, or both
Separators == {<<"\n">>, <<",", " ">>, <<",", "\n">>}

RECURSIVE FieldsSrc(_, _)
\* the first n fields, sep between them
FieldsSrc(n, sep) ==
  IF n = 0 THEN <<>>
  ELSE IF n = 1 THEN FieldSrc(1)
  ELSE FieldsSrc(n - 1, sep) \o sep \o FieldSrc(n)

\* struct P { f1 int <sep> f2 int ... } or the same without the name
StructSrc(n, sep, named) ==
  <<"s", "t", "r", "u", "c", "t", " ">>
  \o (IF named THEN <<"P", " ">> ELSE <<>>)
  \o <<"{", " ">> \o FieldsSrc(n, sep) \o <<" ", "}", "\n">>

StructPrograms ==
  {StructSrc(n, sep, named) :
     n \in 0..MaxFields, sep \in Separators, named \in BOOLEAN}

\* a function whose body nests if, if and else, one statement per line
SrcNestedIf ==
  <<"f", "u", "n", "c", " ", "f", "(", ")", " ", "{", "\n", "i", "f", " ",
    "x", " ", "{", "\n", "i", "f", " ", "y", " ", "{", "\n", "g", "(", "x",
    ")", "\n", "}", "\n", "}", " ", "e", "l", "s", "e", " ", "{", "\n",
    "r", "e", "t", "u", "r", "n", " ", "x", "\n", "}", "\n", "}", "\n">>

\* a function whose body nests if and for, then a struct and a hash literal
SrcNestedFor ==
  <<"f", "u", "n", "c", " ", "f", "(", ")", " ", "{", "\n", "i", "f", " ",
    "x", " ", "{", "\n", "f", "o", "r", " ", ";", " ", ";", " ", "{", "\n",
    "g", "(", "x", ")", "\n", "}", "\n", "}", "\n", "s", "t", "r", "u",
    "c", "t", " ", "P", " ", "{", "\n", "f", "1", " ", "i", "n", "t", "\n",
    "}", "\n", "h", " ", "=", " ", "{", "a", ":", " ", "1", "}", "\n", "}",
    "\n">>

\* func f() { return } on three lines, then func g() { }
SrcBareReturn ==
  <<"f", "u", "n", "c", " ", "f", "(", ")", " ", "{", "\n", "r", "e", "t",
    "u", "r", "n", "\n", "}", "\n", "f", "u", "n", "c", " ", "g", "(", ")",
    " ", "{", " ", "}", "\n">>

\* the same with `return;`
SrcReturnSemicolon ==
  <<"f", "u", "n", "c", " ", "f", "(", ")", " ", "{", "\n", "r", "e", "t",
    "u", "r", "n", ";", "\n", "}", "\n", "f", "u", "n", "c", " ", "g", "(",
    ")", " ", "{", " ", "}", "\n">>

\* digit runs of at most MaxDigits digits, with and without leading zeros
DigitRuns == UNION {[1..n -> {"0", "1", "8"}] : n \in 1..MaxDigits}

\* the digit run as an expression statement on a line of its own
IntSrc(d) == d \o <<"\n">>

\* the unary prefix operators
PrefixOps == {"-", "+", "!"}

\* x = <o1> <o2>a, or x = <o1>(<o2>a)
UnarySrc(o1, o2, grouped) ==
  <<"x", " ", "=", " ", o1>>
  \o (IF grouped THEN <<"(", o2, "a", ")">> ELSE <<" ", o2, "a">>)
  \o <<"\n">>

Programs ==
  {SrcForLoop, SrcHello(SaikaKw), SrcHello(FuncKw), SrcMissingParen,
   SrcWhileLoop, SrcBareLoop, SrcRangeKeyValue, SrcRangeValue,
   SrcForLet, SrcForVar, SrcNestedIf, SrcNestedFor, SrcBareReturn,
   SrcReturnSemicolon}
  \cup {ForSrc(i, c, t) : i \in BOOLEAN, c \in BOOLEAN, t \in BOOLEAN}
  \cup {RecoverySrc(m, w) : m \in MalformedStmts, w \in WellFormedStmts}
  \cup {StmtSrc(st, semi, b) : st \in StmtForms, semi \in BOOLEAN, b \in BOOLEAN}
  \cup StructPrograms
  \cup {IntSrc(d) : d \in DigitRuns}
  \cup {UnarySrc(o1, o2, gr) : o1 \in PrefixOps, o2 \in PrefixOps, gr \in BOOLEAN}
  \cup {SrcLet \o t : t \in Terminators}
  \cup {ExprSrc(o1, o2) \o t : o1 \in AllOps, o2 \in AllOps, t \in Terminators}
  \cup {FnSrc(spec) \o t : spec \in FnSpecs, t \in Terminators}

\* "abc with no closing quote
SrcOpenString == <<"\"", "a", "b", "c">>

\* 123abc
SrcDigitsLetters == <<"1", "2", "3", "a", "b", "c">>

\* digits[.digits][(e|E)[+|-]digits] with a fraction or an exponent
NumInts == {<<"0">>, <<"1">>, <<"1", "2">>}
NumFracs == {<<>>, <<".", "5">>, <<".", "2", "5">>}
NumExps == {<<>>, <<"e", "1", "0">>, <<"E", "3">>, <<"e", "-", "5">>,
            <<"e", "+", "7">>}
FloatLexemes ==
  {i \o f \o e : i \in NumInts, f \in NumFracs, e \in NumExps}
  \ NumInts

\* what may follow a number: nothing (end of input) or other text
Followers == {<<>>, <<" ">>, <<"\n">>, <<")">>, <<" ", "x">>, <<";">>}

\* digits, letters (one of them multi-byte), an operator, a quote, white
\* space and the code point U+0000
LexAlphabet ==
  {"1", "a", "e", "_", SaikaRune, ".", "+", "\"", " ", "\n", Nul}

\* every text of at most MaxLexLen runes over LexAlphabet
ShortTexts == UNION {[1..n -> LexAlphabet] : n \in 0..MaxLexLen}

LexInputs ==
  {SrcOpenString, SrcDigitsLetters}
  \cup {x \o f : x \in FloatLexemes, f \in Followers}
  \cup ShortTexts

\* ------------------------------------------------------------------------
\* State machine
\* ------------------------------------------------------------------------
VARIABLES
  input,     \* the source text handed to the run
  pc,        \* "parse", "generate", "done" (TranspileWithPath) or "lex"
  p,         \* the parser, with its lexer, tokens and errors
  program,   \* the ast.Program under construction
  g,         \* the generator
  gi,        \* index of the next statement Generate handles
  written,   \* what Generate wrote to its builder, one entry per statement
  result,    \* the TranspileResult and what was returned with it
  lx,        \* a lexer driven directly
  toks,      \* the tokens lx has returned
  second     \* a second run of TranspileWithPath, beside the first

vars == <<input, pc, p, program, g, gi, written, result, lx, toks, second>>

RECURSIVE Flatten(_)
\* strings.Builder.String over the writes made
Flatten(ws) == IF ws = <<>> THEN <<>> ELSE ws[1] \o Flatten(Tail(ws))

NoResult == Result(<<>>, <<>>, FALSE, FALSE)

\* TranspileWithPath up to the creation of the parser, ParseProgram up to
\* its loop
Init ==
  /\ input \in Programs
  /\ pc = "parse"
  /\ p = NewParser(NewLexer(input))
  /\ program = [Statements |-> <<>>, Position |-> getPosition(p)]
  /\ g = NewGenerator
  /\ gi = 1
  /\ written = <<>>
  /\ result = NoResult
  /\ lx = NewLexer(input)
  /\ toks = <<>>
  /\ second = <<>>

\* one iteration of the loop of ParseProgram
ParseStep ==
  /\ pc = "parse"
  /\ p.curToken.Type # "EOF"
  /\ \E r \in {ParseProgramStep(p, program.Statements)} :
       /\ p' = r.p
       /\ program' = [program EXCEPT !.Statements = r.statements]
  /\ UNCHANGED <<input, pc, g, gi, written, result, lx, toks, second>>

\* ParseProgram returns and TranspileWithPath goes on to the generator
\* without looking at the parser's errors
ParseReturnUnchecked ==
  /\ pc = "parse"
  /\ p.curToken.Type = "EOF"
  /\ pc' = "generate"
  /\ UNCHANGED <<input, p, program, g, gi, written, result, lx, toks, second>>

\* ParseProgram returns; TranspileWithPath checks the parser's errors
ParseReturn ==
  /\ pc = "parse"
  /\ p.curToken.Type = "EOF"
  /\ IF Len(p.errors) > 0
       THEN /\ pc' = "done"
            /\ result' = Result(<<>>, p.errors, TRUE, FALSE)
       ELSE /\ pc' = "generate"
            /\ UNCHANGED result
  /\ UNCHANGED <<input, p, program, g, gi, written, lx, toks, second>>

\* one iteration of the loop of Generate, the runtime choosing the order of
\* the map ranges in it
GenerateStmt ==
  /\ pc = "generate"
  /\ gi <= Len(program.Statements)
  /\ \E o \in MapOrders :
     \E r \in {GenerateStep([g EXCEPT !.mapOrder = o], program.Statements[gi])} :
       /\ g' = [r.g EXCEPT !.mapOrder = g.mapOrder]
       /\ written' = Append(written, r.s)
       /\ gi' = gi + 1
       /\ IF r.g.panicked
            THEN /\ pc' = "done"
                 /\ result' = Result(<<>>, <<>>, FALSE, TRUE)
            ELSE UNCHANGED <<pc, result>>
  /\ UNCHANGED <<input, p, program, lx, toks, second>>

\* Generate returns; TranspileWithPath checks the generator's errors
GenerateReturn ==
  /\ pc = "generate"
  /\ gi > Len(program.Statements)
  /\ pc' = "done"
  /\ result' = IF Len(g.errors) > 0
                 THEN Result(<<>>, g.errors, TRUE, FALSE)
                 ELSE Result(Flatten(written), <<>>, FALSE, FALSE)
  /\ UNCHANGED <<input, p, program, g, gi, written, lx, toks, second>>

Next == ParseStep \/ ParseReturn \/ GenerateStmt \/ GenerateReturn

Spec == Init /\ [][Next]_vars

\* number of EOF tokens among toks
EofCount == Cardinality({i \in 1..Len(toks) : toks[i].Type = "EOF"})

\* a lexer on its own
LexInit ==
  /\ input \in LexInputs
  /\ pc = "lex"
  /\ p = NewParser(NewLexer(<<>>))
  /\ program = [Statements |-> <<>>, Position |-> getPosition(p)]
  /\ g = NewGenerator
  /\ gi = 1
  /\ written = <<>>
  /\ result = NoResult
  /\ lx = NewLexer(input)
  /\ toks = <<>>
  /\ second = <<>>

\* one call of NextToken
LexNextToken ==
  /\ pc = "lex"
  /\ EofCount < MaxEofCalls
  /\ \E r \in {NextToken(lx)} :
       /\ lx' = r.l
       /\ toks' = Append(toks, r.tok)
  /\ UNCHANGED <<input, pc, p, program, g, gi, written, result, second>>

LexSpec == LexInit /\ [][LexNextToken]_vars

\* ------------------------------------------------------------------------
\* Two runs of TranspileWithPath side by side.  Each call builds its own
\* lexer, parser and generator; what the packages share (precedences,
\* ast.Keywords) is only read.
\* ------------------------------------------------------------------------
PairPrograms ==
  {SrcHello(SaikaKw), SrcMissingParen, SrcLet \o <<"\n">>,
   ExprSrc("+", "*") \o <<"\n">>, ExprSrc("=", "+="),
   StmtSrc(<<"r", "e", "t", "u", "r", "n", " ", "x">>, TRUE, TRUE),
   FnSrc(<<[shape |-> "empty", kw |-> SaikaKw],
           [shape |-> "params", kw |-> FuncKw]>>)}

\* a run at the point where ParseProgram enters its loop
NewRun(src) ==
  [input |-> src, pc |-> "parse", p |-> NewParser(NewLexer(src)),
   program |-> [Statements |-> <<>>,
                Position |-> getPosition(NewParser(NewLexer(src)))],
   g |-> NewGenerator, gi |-> 1, written |-> <<>>, result |-> NoResult]

PairInit ==
  /\ input \in PairPrograms
  /\ pc = "parse"
  /\ p = NewParser(NewLexer(input))
  /\ program = [Statements |-> <<>>, Position |-> getPosition(p)]
  /\ g = NewGenerator
  /\ gi = 1
  /\ written = <<>>
  /\ result = NoResult
  /\ lx = NewLexer(input)
  /\ toks = <<>>
  /\ \E src \in PairPrograms : second = NewRun(src)

\* one iteration of the loop of ParseProgram in the second run, its parser
\* drawing tokens from the first run's lexer
SecondParseStepSharedLexer ==
  /\ second.pc = "parse"
  /\ second.p.curToken.Type # "EOF"
  /\ \E r \in {ParseProgramStep([second.p EXCEPT !.l = p.l],
                                second.program.Statements)} :
       /\ second' = [second EXCEPT !.p = r.p,
                                   !.program.Statements = r.statements]
       /\ p' = [p EXCEPT !.l = r.p.l]
  /\ UNCHANGED <<input, pc, program, g, gi, written, result, lx, toks>>

\* one iteration of the loop of ParseProgram in the second run
SecondParseStep ==
  /\ second.pc = "parse"
  /\ second.p.curToken.Type # "EOF"
  /\ \E r \in {ParseProgramStep(second.p, second.program.Statements)} :
       second' = [second EXCEPT !.p = r.p,
                                !.program.Statements = r.statements]
  /\ UNCHANGED <<input, pc, p, program, g, gi, written, result, lx, toks>>

\* ParseProgram returns in the second run
SecondParseReturn ==
  /\ second.pc = "parse"
  /\ second.p.curToken.Type = "EOF"
  /\ second' = IF Len(second.p.errors) > 0
                 THEN [second EXCEPT
                         !.pc = "done",
                         !.result = Result(<<>>, second.p.errors, TRUE, FALSE)]
                 ELSE [second EXCEPT !.pc = "generate"]
  /\ UNCHANGED <<input, pc, p, program, g, gi, written, result, lx, toks>>

\* one iteration of the loop of Generate in the second run
SecondGenerateStmt ==
  /\ second.pc = "generate"
  /\ second.gi <= Len(second.program.Statements)
  /\ \E o \in MapOrders :
     \E r \in {GenerateStep([second.g EXCEPT !.mapOrder = o],
                             second.program.Statements[second.gi])} :
       second' = [second EXCEPT
                    !.g = [r.g EXCEPT !.mapOrder = second.g.mapOrder],
                    !.written = Append(second.written, r.s),
                    !.gi = second.gi + 1,
                    !.pc = IF r.g.panicked THEN "done" ELSE second.pc,
                    !.result = IF r.g.panicked
                                 THEN Result(<<>>, <<>>, FALSE, TRUE)
                                 ELSE second.result]
  /\ UNCHANGED <<input, pc, p, program, g, gi, written, result, lx, toks>>

\* Generate returns in the second run
SecondGenerateReturn ==
  /\ second.pc = "generate"
  /\ second.gi > Len(second.program.Statements)
  /\ second' = [second EXCEPT
                  !.pc = "done",
                  !.result = IF Len(second.g.errors) > 0
                               THEN Result(<<>>, second.g.errors, TRUE, FALSE)
                               ELSE Result(Flatten(second.written), <<>>,
                                           FALSE, FALSE)]
  /\ UNCHANGED <<input, pc, p, program, g, gi, written, result, lx, toks>>

PairNext ==
  \/ ParseStep \/ ParseReturn \/ GenerateStmt \/ GenerateReturn
  \/ SecondParseStep \/ SecondParseReturn \/ SecondGenerateStmt
  \/ SecondGenerateReturn

PairSpec == PairInit /\ [][PairNext]_vars

\* ------------------------------------------------------------------------
\* The generator on its own: Generate handed a Program built by hand.  The
\* nodes are those of package ast; the parser builds no Range node on any
\* input, so the Range cases of the generator are exercised only here.
\* ------------------------------------------------------------------------
MaxGenStmts == 2

\* &ast.Identifier{Value: name}
IdentNode(name) ==
  [kind |-> "Identifier", Token |-> Token("IDENT", name, 1, 1),
   Value |-> name, Position |-> Position(1, 1)]

\* &ast.ExpressionStatement{Expression: expr}
ExprStmtNode(expr) ==
  [kind |-> "ExpressionStatement", Token |-> expr.Token,
   Expression |-> expr, Position |-> expr.Position]

\* &ast.BlockStatement{Statements: stmts}
BlockNode(stmts) ==
  [kind |-> "BlockStatement", Token |-> Token("{", <<"{">>, 1, 1),
   Statements |-> stmts, Position |-> Position(1, 1)]

\* &ast.RangeStatement{Key: key, Value: value, Collection: e, Body: body}
RangeNode(key, value, body) ==
  [kind |-> "RangeStatement", Token |-> Token("FOR", <<"f", "o", "r">>, 1, 1),
   Key |-> key, Value |-> value, Collection |-> IdentNode(<<"e">>),
   Body |-> body, Position |-> Position(1, 1)]

\* Range statements over e, with key k or none, value v or none, and an
\* empty body or the body { x }
RangeNodes ==
  {RangeNode(key, value, body) :
     key \in {Nil, IdentNode(<<"k">>)},
     value \in {Nil, IdentNode(<<"v">>)},
     body \in {BlockNode(<<>>), BlockNode(<<ExprStmtNode(IdentNode(<<"x">>))>>)}}

GenPrograms == UNION {[1..n -> RangeNodes] : n \in 1..MaxGenStmts}

\* codegen.New(program) and Generate up to its loop
GenInit ==
  /\ input = <<>>
  /\ pc = "generate"
  /\ p = NewParser(NewLexer(<<>>))
  /\ \E stmts \in GenPrograms :
       program = [Statements |-> stmts, Position |-> Position(1, 1)]
  /\ g = NewGenerator
  /\ gi = 1
  /\ written = <<>>
  /\ result = NoResult
  /\ lx = NewLexer(<<>>)
  /\ toks = <<>>
  /\ second = <<>>

GenNext == GenerateStmt \/ GenerateReturn

GenSpec == GenInit /\ [][GenNext]_vars

\* ------------------------------------------------------------------------
\* TranspileWithPath on broken input: every text of a few words, and the
\* well-formed programs of a corpus cut short after any rune or with any
\* one rune left out.
\* ------------------------------------------------------------------------
MaxWords == 2

\* x = f(a, b[1]).c + -d * (e)
SrcExpressions ==
  <<"x", " ", "=", " ", "f", "(", "a", ",", " ", "b", "[", "1", "]", ")",
    ".", "c", " ", "+", " ", "-", "d", " ", "*", " ", "(", "e", ")", "\n">>

\* h = {a: 1, b: [2, "s"]}
SrcLiterals ==
  <<"h", " ", "=", " ", "{", "a", ":", " ", "1", ",", " ", "b", ":", " ",
    "[", "2", ",", " ", "\"", "s", "\"", "]", "}", "\n">>

\* import f "fmt" / let x int = 1 / func g(a int, b) int { }, one per line
SrcDeclarations ==
  <<"i", "m", "p", "o", "r", "t", " ", "f", " ", "\"", "f", "m", "t", "\"",
    "\n", "l", "e", "t", " ", "x", " ", "i", "n", "t", " ", "=", " ", "1",
    "\n", "f", "u", "n", "c", " ", "g", "(", "a", " ", "i", "n", "t", ",",
    " ", "b", ")", " ", "i", "n", "t", " ", "{", " ", "}", "\n">>

Words ==
  {<<"x">>,
   <<"1">>,
   <<"(">>,
   <<")">>,
   <<"{">>,
   <<"}">>,
   <<"[">>,
   <<"]">>,
   <<",">>,
   <<".">>,
   <<"-">>,
   <<":">>,
   <<";">>,
   <<"=">>,
   <<"i", "f">>,
   <<"e", "l", "s", "e">>,
   <<"r", "e", "t", "u", "r", "n">>,
   <<"f", "u", "n", "c">>,
   <<"l", "e", "t">>,
   <<"s", "t", "r", "u", "c", "t">>,
   <<"f", "o", "r">>,
   <<"+", "+">>,
   <<Nul>>}

RECURSIVE JoinWords(_)
\* the words on one line, a blank between two of them
JoinWords(ws) ==
  IF Len(ws) = 0 THEN <<"\n">>
  ELSE IF Len(ws) = 1 THEN ws[1] \o <<"\n">>
  ELSE ws[1] \o <<" ">> \o JoinWords(Tail(ws))

WordTexts == {JoinWords(ws) : ws \in UNION {[1..n -> Words] : n \in 1..MaxWords}}

Corpus ==
  {SrcExpressions, SrcLiterals, SrcDeclarations, SrcNestedIf, SrcNestedFor,
   SrcForLet, SrcBareReturn, SrcHello(SaikaKw), StructSrc(2, <<"\n">>, TRUE)}

\* src cut short after any rune
Prefixes(src) == {SubSeq(src, 1, n) : n \in 0..Len(src)}

\* src with any one rune left out
Deletions(src) ==
  {SubSeq(src, 1, i - 1) \o SubSeq(src, i + 1, Len(src)) : i \in 1..Len(src)}

BrokenPrograms ==
  WordTexts \cup UNION {Prefixes(src) \cup Deletions(src) : src \in Corpus}

BrokenInit ==
  /\ input \in BrokenPrograms
  /\ pc = "parse"
  /\ p = NewParser(NewLexer(input))
  /\ program = [Statements |-> <<>>, Position |-> getPosition(p)]
  /\ g = NewGenerator
  /\ gi = 1
  /\ written = <<>>
  /\ result = NoResult
  /\ lx = NewLexer(input)
  /\ toks = <<>>
  /\ second = <<>>

BrokenSpec == BrokenInit /\ [][Next]_vars

\* ------------------------------------------------------------------------
\* Properties
\* ------------------------------------------------------------------------
\* whether seq starts with prefix (strings.HasPrefix)
HasPrefix(seq, prefix) ==
  Len(seq) >= Len(prefix) /\ SubSeq(seq, 1, Len(prefix)) = prefix

\* how often rune r occurs in seq (strings.Count)
Count(seq, r) == Cardinality({i \in 1..Len(seq) : seq[i] = r})

\* the expression of the program's only statement
OnlyExpression ==
  IF Len(program.Statements) = 1
       /\ program.Statements[1].kind = "ExpressionStatement"
    THEN program.Statements[1].Expression
    ELSE Nil

\* the tree of `left op right` written out as Shape writes it
Tree(op, left, right) ==
  <<(IF op \in AssignOps THEN "Assignment" ELSE "Binary"), "(">>
  \o left \o <<",">> \o OpRunes(op) \o <<",">> \o right \o <<")">>

RECURSIVE Shape(_)
\* an expression tree written out: the kind of each inner node, its operator
\* and its operands, down to the names and numbers at the leaves
Shape(n) ==
  CASE n.kind = "Identifier" -> n.Value
    [] n.kind = "IntegerLiteral" -> n.Token.Literal
    [] n.kind = "BinaryExpression" ->
         <<"Binary", "(">> \o Shape(n.Left) \o <<",">> \o n.Operator
         \o <<",">> \o Shape(n.Right) \o <<")">>
    [] n.kind = "AssignmentExpression" ->
         <<"Assignment", "(">> \o Shape(n.Left) \o <<",">> \o n.Operator
         \o <<",">> \o Shape(n.Right) \o <<")">>
    [] OTHER -> <<n.kind>>

\* C1: parsing `for i := 0; i < 10; i++ { }` records no diagnostic and yields
\* exactly one For statement with init, condition and post present and an
\* empty body, which is generated as a three-clause loop
C1_ForLoopRoundTrip ==
  input = SrcForLoop /\ pc = "done" =>
    /\ p.errors = <<>>
    /\ Len(program.Statements) = 1
    /\ program.Statements[1].kind = "ForStatement"
    /\ ~IsNil(program.Statements[1].Init)
    /\ ~IsNil(program.Statements[1].Condition)
    /\ ~IsNil(program.Statements[1].Post)
    /\ program.Statements[1].Body.kind = "BlockStatement"
    /\ program.Statements[1].Body.Statements = <<>>
    /\ ~result.err /\ ~result.panicked
    /\ HasPrefix(result.GoCode, <<"f", "o", "r", " ">>)
    /\ Count(result.GoCode, ";") = 2

\* the call fmt.Println("Hello")
IsHelloCall(e) ==
  /\ e.kind = "CallExpression"
  /\ e.Function.kind = "MemberExpression"
  /\ e.Function.Object.kind = "Identifier"
  /\ e.Function.Object.Value = <<"f", "m", "t">>
  /\ e.Function.Property.Value = <<"P", "r", "i", "n", "t", "l", "n">>
  /\ Len(e.Arguments) = 1
  /\ e.Arguments[1].kind = "StringLiteral"
  /\ e.Arguments[1].Value = <<"H", "e", "l", "l", "o">>

\* C2: the three-line Hello program with the function keyword spelled U+6578
\* gives no parser and no generator diagnostic and a Program of exactly three
\* statements in source order: package clause, import clause, function
\* declaration whose body is one expression statement, the call of the
\* member fmt.Println with the single argument "Hello"
C2_HelloProgram ==
  input = SrcHello(SaikaKw) /\ pc = "done" =>
    /\ p.errors = <<>>
    /\ g.errors = <<>>
    /\ Len(program.Statements) = 3
    /\ program.Statements[1].kind = "PackageStatement"
    /\ program.Statements[2].kind = "ImportStatement"
    /\ program.Statements[3].kind = "FunctionStatement"
    /\ program.Statements[3].Body.kind = "BlockStatement"
    /\ Len(program.Statements[3].Body.Statements) = 1
    /\ program.Statements[3].Body.Statements[1].kind = "ExpressionStatement"
    /\ IsHelloCall(program.Statements[3].Body.Statements[1].Expression)

\* the Hello program has been transpiled to its Go text
C2_Witness ==
  /\ input = SrcHello(SaikaKw)
  /\ pc = "done"
  /\ ~result.err
  /\ result.GoCode = <<"p", "a", "c", "k", "a", "g", "e", " ", "m", "a", "i", "n", "\n", "i", "m", "p", "o", "r", "t", " ", "\"", "f", "m", "t", "\"", "\n", "f", "u", "n", "c", " ", "m", "a", "i", "n", "(", ")", " ", "{", "\n", "\t", "f", "m", "t", ".", "P", "r", "i", "n", "t", "l", "n", "(", "\"", "H", "e", "l", "l", "o", "\"", ")", "\n", "}", "\n">>

\* the precedence order as stated, lowest first: assignment, ||, &&,
\* equality, relational, |, ^, &, shift, additive, multiplicative
StatedOrder ==
  <<AssignOps, {"||"}, {"&&"}, {"==", "!="}, {"<", ">", "<=", ">="}, {"|"},
    {"^"}, {"&"}, {"<<", ">>"}, {"+", "-"}, {"*", "/", "%"}>>

StatedLevel(op) == CHOOSE i \in 1..Len(StatedOrder) : op \in StatedOrder[i]

\* C3: when op1 stands lower than op2 in the stated order, `a op1 b op2 c`
\* parses as a op1 (b op2 c) and `a op2 b op1 c` as (a op2 b) op1 c, and
\* `let x = 1 + 2 * 3` generates the initializer (1 + (2 * 3))
C3_PrecedenceGrouping ==
  pc = "done" =>
    /\ \A o1 \in AllOps, o2 \in AllOps, t \in Terminators :
         StatedLevel(o1) < StatedLevel(o2) =>
           /\ input = ExprSrc(o1, o2) \o t =>
                Shape(OnlyExpression)
                  = Tree(o1, <<"a">>, Tree(o2, <<"b">>, <<"c">>))
           /\ input = ExprSrc(o2, o1) \o t =>
                Shape(OnlyExpression)
                  = Tree(o1, Tree(o2, <<"a">>, <<"b">>), <<"c">>)
    /\ \A t \in Terminators :
         input = SrcLet \o t =>
           result.GoCode = <<"v", "a", "r", " ", "x", " ", "=", " ", "(", "1", " ", "+", " ", "(", "2", " ", "*", " ", "3", ")", ")", "\n">>

\* C4: for two non-assignment binary operators of equal precedence (the same
\* operator twice included), `a op b op' c` parses to Binary(Binary(a, b), c)
\* and is generated as ((a op b) op' c)
C4_LeftAssociative ==
  pc = "done" =>
    \A o1 \in BinaryOps, o2 \in BinaryOps, t \in Terminators :
      precedences[o1] = precedences[o2] /\ input = ExprSrc(o1, o2) \o t =>
        /\ Shape(OnlyExpression)
             = Tree(o2, Tree(o1, <<"a">>, <<"b">>), <<"c">>)
        /\ result.GoCode
             = <<"(", "(", "a", " ">> \o OpRunes(o1) \o <<" ", "b", ")", " ">>
               \o OpRunes(o2) \o <<" ", "c", ")", "\n">>

\* C5: in a chain of two assignment operators, `a op b op' c`, the right-hand
\* side of the outer assignment is the whole nested assignment:
\* Assignment(a, Assignment(b, c))
C5_AssignmentRightAssociative ==
  pc = "done" =>
    \A o1 \in AssignOps, o2 \in AssignOps, t \in Terminators :
      input = ExprSrc(o1, o2) \o t =>
        Shape(OnlyExpression) = Tree(o1, <<"a">>, Tree(o2, <<"b">>, <<"c">>))

\* Go's five precedence levels for binary operators, 5 binding strongest
GoPrecedence(op) ==
  CASE op \in {"*", "/", "%", "<<", ">>", "&"} -> 5
    [] op \in {"+", "-", "|", "^"} -> 4
    [] op \in {"==", "!=", "<", "<=", ">", ">="} -> 3
    [] op = "&&" -> 2
    [] op = "||" -> 1

\* C6: the parser groups `a op1 b op2 c` as Go does: to the left, with op2 at
\* the root over (a op1 b), when op1 binds at least as strongly as op2 in
\* Go's table, and to the right, with op1 at the root over (b op2 c), when
\* op2 binds more strongly
C6_GroupingAsInGo ==
  pc = "done" =>
    \A o1 \in BinaryOps, o2 \in BinaryOps, t \in Terminators :
      input = ExprSrc(o1, o2) \o t =>
        /\ OnlyExpression.kind = "BinaryExpression"
        /\ IF GoPrecedence(o1) >= GoPrecedence(o2)
             THEN /\ OnlyExpression.Operator = OpRunes(o2)
                  /\ OnlyExpression.Left.kind = "BinaryExpression"
                  /\ OnlyExpression.Left.Operator = OpRunes(o1)
             ELSE /\ OnlyExpression.Operator = OpRunes(o1)
                  /\ OnlyExpression.Right.kind = "BinaryExpression"
                  /\ OnlyExpression.Right.Operator = OpRunes(o2)

\* C7: programs of function declarations that parse without diagnostics and
\* differ only in spelling each keyword as U+6578 or as func generate the
\* same text, and every function declaration written begins with "func "
C7_KeywordSpellingInvisible ==
  pc = "done" /\ p.errors = <<>> =>
    \A s \in FnSpecs, t \in Terminators :
      input = FnSrc(s) \o t =>
        /\ \A s2 \in Respellings(s) :
             \A r2 \in {TranspileWithPath(FnSrc(s2) \o t)} :
               ~r2.err => r2 = result
        /\ \A i \in 1..Len(program.Statements) :
             program.Statements[i].kind = "FunctionStatement" =>
               HasPrefix(written[i], <<"f", "u", "n", "c", " ">>)

\* two declarations, the first spelled U+6578 and the second func, have been
\* transpiled to Go text
C7_Witness ==
  /\ pc = "done"
  /\ \E s \in FnSpecs :
       /\ Len(s) = 2 /\ s[1].kw = SaikaKw /\ s[2].kw = FuncKw
       /\ input = FnSrc(s)
  /\ ~result.err
  /\ Len(written) = 2
  /\ HasPrefix(result.GoCode, <<"f", "u", "n", "c", " ">>)

\* C8: lexing "abc with no closing quote returns a STRING token with the
\* literal abc, reports an unterminated-string diagnostic, and the next call
\* returns EOF
C8_UnterminatedString ==
  input = SrcOpenString /\ Len(toks) >= 2 =>
    /\ toks[1].Type = "STRING"
    /\ toks[1].Literal = <<"a", "b", "c">>
    /\ lx.printed # <<>>
    /\ toks[2].Type = "EOF"

\* C9: lexing 123abc, the first token returned is ILLEGAL and carries the
\* line and column of the first digit
C9_DigitsThenLetters ==
  input = SrcDigitsLetters /\ Len(toks) >= 1 =>
    /\ toks[1].Type = "ILLEGAL"
    /\ toks[1].Line = 1
    /\ toks[1].Column = 1

\* C10: for every lexeme digits[.digits][(e|E)[+|-]digits] with a fraction or
\* an exponent, followed by other text or by the end of the input, the first
\* token returned is FLOAT and its literal is the complete lexeme
C10_FloatLexeme ==
  Len(toks) >= 1 =>
    \A x \in FloatLexemes, f \in Followers :
      input = x \o f =>
        toks[1].Type = "FLOAT" /\ toks[1].Literal = x

\* C11: once NextToken has returned EOF every later call returns EOF, and
\* EOF is returned only when all of the input has been consumed
C11_EofForever ==
  [][/\ (toks # <<>> /\ toks[Len(toks)].Type = "EOF")
          => toks'[Len(toks')].Type = "EOF"
     /\ toks'[Len(toks')].Type = "EOF" => lx'.readPosition >= Len(input)]_vars

\* the token types a diagnostic can name
TokenTypes ==
  {Keywords[k] : k \in DOMAIN Keywords} \cup AllOps
  \cup {"IDENT", "INT", "FLOAT", "STRING", "CHAR", "ILLEGAL", "EOF", "!", "++",
        "--", "<-", ".", ",", ";", ":", "(", ")", "{", "}", "[", "]"}

\* the diagnostic of peekError at line:column for an expected token type
ExpectedDiagnostic(line, column, expected, got) ==
  "Line " \o IntToStr(line) \o ":" \o IntToStr(column)
  \o " expected next token to be " \o expected \o ", got " \o got \o " instead"

\* C12: parsing `U+6578 main( { }` records a diagnostic `expected next token
\* to be ), got ...` whose position is on line 1 at a column inside the
\* statement
C12_MissingParenDiagnostic ==
  input = SrcMissingParen /\ pc = "done" =>
    \E i \in 1..Len(p.errors), c \in 1..Len(input), t \in TokenTypes :
      p.errors[i] = ExpectedDiagnostic(1, c, ")", t)

\* C13: after a statement that fails with a diagnostic, the well-formed
\* top-level statement that follows it is still parsed as a statement of its
\* own kind and appears in Program.Statements
C13_SiblingStatementsSurvive ==
  pc = "done" =>
    \A m \in MalformedStmts, w \in WellFormedStmts :
      input = RecoverySrc(m, w) =>
        /\ p.errors # <<>>
        /\ \E i \in 1..Len(program.Statements) :
             program.Statements[i].kind = w.kind

\* C14: TranspileWithPath returns Go code only when the parser's and the
\* generator's diagnostic lists are both empty; when one is not it returns
\* an error, leaves GoCode empty and copies every diagnostic into Errors in
\* the order recorded; the generator is not run after a parser diagnostic
C14_DiagnosticsAreFatal ==
  /\ p.errors # <<>> => pc # "generate" /\ g = NewGenerator /\ written = <<>>
  /\ pc = "done" /\ ~result.panicked =>
       /\ result.GoCode # <<>> => p.errors = <<>> /\ g.errors = <<>>
       /\ ~result.err => p.errors = <<>> /\ g.errors = <<>>
       /\ p.errors # <<>> =>
            result.err /\ result.GoCode = <<>> /\ result.Errors = p.errors
       /\ p.errors = <<>> /\ g.errors # <<>> =>
            result.err /\ result.GoCode = <<>> /\ result.Errors = g.errors

\* a run has returned an error with several parser diagnostics and no code
C14_Witness ==
  /\ pc = "done"
  /\ Len(p.errors) >= 2
  /\ result.err
  /\ result.Errors = p.errors
  /\ result.GoCode = <<>>
  /\ written = <<>>

\* C15: a single `;` directly after a statement of any kind, at top level or
\* inside a block, changes neither the parsed Program nor the diagnostics
C15_TrailingSemicolon ==
  pc # "parse" =>
    \A st \in StmtForms, b \in BOOLEAN :
      input = StmtSrc(st, TRUE, b) =>
        \A r \in {ParseProgram(NewParser(NewLexer(StmtSrc(st, FALSE, b))))} :
          program.Statements = r.statements /\ p.errors = r.p.errors

\* C16: with the steps of two runs interleaved in any order, each run ends
\* with the Program, the diagnostics and the result it has when run alone
C16_RunsAreIndependent ==
  /\ pc = "done" =>
       /\ result = TranspileWithPath(input)
       /\ \A r \in {ParseProgram(NewParser(NewLexer(input)))} :
            program.Statements = r.statements /\ p.errors = r.p.errors
  /\ second.pc = "done" =>
       /\ second.result = TranspileWithPath(second.input)
       /\ \A r \in {ParseProgram(NewParser(NewLexer(second.input)))} :
            /\ second.program.Statements = r.statements
            /\ second.p.errors = r.p.errors

\* both runs are done on different inputs, the first with Go text and the
\* second with diagnostics
C16_Witness ==
  /\ pc = "done" /\ second.pc = "done"
  /\ input # second.input
  /\ ~result.err /\ result.GoCode # <<>>
  /\ second.result.err /\ second.result.Errors # <<>>

\* the line of the rune at 0-based offset off of text: one more than the
\* line breaks before it
LineAt(text, off) == 1 + Cardinality({i \in 1..off : text[i] = "\n"})

\* the 1-based column of the rune at 0-based offset off of text: its
\* distance from the last line break before it, or from the start
ColumnAt(text, off) ==
  off + 1 - (IF \E i \in 1..off : text[i] = "\n"
               THEN CHOOSE i \in 1..off :
                      text[i] = "\n" /\ \A j \in (i + 1)..off : text[j] # "\n"
               ELSE 0)

\* the 0-based offset at which the token of the next NextToken call starts
NextTokenStart == skipWhitespace(lx).position

\* C17: every token NextToken returns, other than EOF, carries the line and
\* the 1-based column of its first character in the source
C17_TokenPositions ==
  [][toks'[Len(toks')].Type # "EOF" =>
       /\ toks'[Len(toks')].Line = LineAt(input, NextTokenStart)
       /\ toks'[Len(toks')].Column = ColumnAt(input, NextTokenStart)]_vars

RECURSIVE RunEnd(_, _)
\* where the run of letters and digits that holds the rune at 0-based offset
\* off of text ends: the offset just past its last rune
RunEnd(text, off) ==
  IF off < Len(text) /\ (isLetter(text[off + 1]) \/ isDigit(text[off + 1]))
    THEN RunEnd(text, off + 1)
    ELSE off

\* C18: when the next token starts at a letter or underscore, the literal of
\* the token returned is the whole maximal run of letters, digits and
\* underscores that starts there
C18_IdentifierLiteral ==
  [][isLetter(skipWhitespace(lx).ch) =>
       toks'[Len(toks')].Literal
         = SubSeq(input, NextTokenStart + 1, RunEnd(input, NextTokenStart))]_vars

\* the program is one For statement whose clauses are present as stated:
\* Init the statement `i = 0`, Condition the comparison `i < n`, Post the
\* statement `i++`
IsForWith(hasInit, hasCond, hasPost) ==
  /\ Len(program.Statements) = 1
  /\ program.Statements[1].kind = "ForStatement"
  /\ IF hasInit
       THEN /\ program.Statements[1].Init.kind = "ExpressionStatement"
            /\ Shape(program.Statements[1].Init.Expression)
                 = Tree("=", <<"i">>, <<"0">>)
       ELSE IsNil(program.Statements[1].Init)
  /\ IF hasCond
       THEN Shape(program.Statements[1].Condition)
              = Tree("<", <<"i">>, <<"n">>)
       ELSE IsNil(program.Statements[1].Condition)
  /\ IF hasPost
       THEN /\ program.Statements[1].Post.kind = "ExpressionStatement"
            /\ program.Statements[1].Post.Expression.kind = "UnaryExpression"
            /\ program.Statements[1].Post.Expression.Operator = <<"+", "+">>
       ELSE IsNil(program.Statements[1].Post)

\* C19: for the header `init; cond; post` with any of the clauses left
\* empty, for `for cond { }` and for `for { }`, the parser records no
\* diagnostic and builds a For node with exactly the clauses written, each
\* in its slot
C19_ForHeaderClauses ==
  pc # "parse" =>
    /\ \A i \in BOOLEAN, c \in BOOLEAN, t \in BOOLEAN :
         input = ForSrc(i, c, t) => p.errors = <<>> /\ IsForWith(i, c, t)
    /\ input = SrcWhileLoop => p.errors = <<>> /\ IsForWith(FALSE, TRUE, FALSE)
    /\ input = SrcBareLoop => p.errors = <<>> /\ IsForWith(FALSE, FALSE, FALSE)

\* the program is one Range statement over the collection e with value v, an
\* empty block as body, and key k or no key
IsRangeWith(hasKey) ==
  /\ Len(program.Statements) = 1
  /\ program.Statements[1].kind = "RangeStatement"
  /\ IF hasKey
       THEN /\ program.Statements[1].Key.kind = "Identifier"
            /\ program.Statements[1].Key.Value = <<"k">>
       ELSE IsNil(program.Statements[1].Key)
  /\ program.Statements[1].Value.kind = "Identifier"
  /\ program.Statements[1].Value.Value = <<"v">>
  /\ program.Statements[1].Collection.kind = "Identifier"
  /\ program.Statements[1].Collection.Value = <<"e">>
  /\ program.Statements[1].Body.kind = "BlockStatement"
  /\ program.Statements[1].Body.Statements = <<>>

\* C20: `for k, v := range e { }` parses to a Range statement with key k,
\* value v and collection e, and `for v := range e { }` to one with value v
\* and no key, both without diagnostics and with the block as body
C20_RangeLoops ==
  pc # "parse" =>
    /\ input = SrcRangeKeyValue => p.errors = <<>> /\ IsRangeWith(TRUE)
    /\ input = SrcRangeValue => p.errors = <<>> /\ IsRangeWith(FALSE)

\* the text of generateBlockStatement for the bodies of RangeNodes, at the
\* top level
BodyText(body) ==
  IF body.Statements = <<>> THEN <<"{", "\n", "}">>
  ELSE <<"{", "\n", "\t", "x", "\n", "}">>

\* the loop header the statement's identifiers call for: `k, v := `, `v := `
\* or `k := ` before `range e`
RangeHead(stmt) ==
  (IF ~IsNil(stmt.Key) /\ ~IsNil(stmt.Value)
     THEN stmt.Key.Value \o <<",", " ">> \o stmt.Value.Value
   ELSE IF ~IsNil(stmt.Value) THEN stmt.Value.Value
   ELSE stmt.Key.Value)
  \o <<" ", ":", "=", " ">>

HasDeclaringInit(stmt) ==
  /\ stmt.kind = "ForStatement"
  /\ ~IsNil(stmt.Init)
  /\ stmt.Init.kind = "VariableStatement"
  /\ ~IsNil(stmt.Init.Value)

\* C22: the init clause of a For node that declares a variable with an
\* initializer is rendered `name := value`, never `var name = value`
C22_ForInitShortDeclaration ==
  \A i \in 1..(gi - 1) :
    \A stmt \in {program.Statements[i]} :
      (pc # "parse" /\ HasDeclaringInit(stmt))
        => HasPrefix(written[i],
                     <<"f", "o", "r", " ">> \o stmt.Init.Name.Value
                     \o <<" ", ":", "=", " ">>)

\* the node is a Struct named P or unnamed, holding the fields f1 .. fn of
\* type int and no other
IsStructWith(node, n, named) ==
  /\ node.kind = "StructLiteral"
  /\ IF named THEN ~IsNil(node.Name) /\ node.Name.Value = <<"P">>
     ELSE IsNil(node.Name)
  /\ Len(node.Fields) = n
  /\ \A i \in 1..n :
       \E j \in 1..n : /\ node.Fields[j].name = FieldName(i)
                       /\ node.Fields[j].type.Name = <<"i", "n", "t">>

\* C23: a struct body whose fields are separated by commas, by line breaks
\* or by both parses without a diagnostic to a Struct node holding every
\* declared field, and parseStructStatement returns with the current token
\* on the closing brace of the struct, here the last token of the input
C23_StructFieldSeparators ==
  \A n \in 0..MaxFields, sep \in Separators, named \in BOOLEAN :
    input = StructSrc(n, sep, named) =>
      /\ (pc = "parse" /\ p.curToken.Type = "STRUCT") =>
            \A r \in {parseStructStatement(p)} :
               /\ r.p.errors = <<>>
               /\ IsStructWith(r.n, n, named)
               /\ r.p.curToken.Type = "}"
               /\ r.p.peekToken.Type = "EOF"
      /\ (pc = "parse" /\ p.curToken.Type = "EOF") =>
            /\ p.errors = <<>>
            /\ Len(program.Statements) = 1
            /\ IsStructWith(program.Statements[1], n, named)

RECURSIVE FieldLines(_)
\* one line `<tab>fi int` for each of the fields f1 .. fn, in that order
FieldLines(n) ==
  IF n = 0 THEN <<>>
  ELSE FieldLines(n - 1) \o <<"\t">> \o FieldSrc(n) \o <<"\n">>

\* the text stated for struct P { f1 int ... fn int }, or for the same
\* without a name, at the top level
StructText(n, named) ==
  (IF named THEN <<"t", "y", "p", "e", " ", "P", " ">> ELSE <<>>)
  \o <<"s", "t", "r", "u", "c", "t", " ", "{", "\n">>
  \o FieldLines(n) \o <<"}", "\n">>

\* C24: for a Struct node the generator writes `type P struct {` (`struct {`
\* without a name), one `field type` line per declared field in declaration
\* order, one level deeper than the struct, and the closing brace; the text
\* is a function of the program, so generating twice gives the same text
C24_StructRendering ==
  \A n \in 0..MaxFields, named \in BOOLEAN :
    (input = StructSrc(n, <<"\n">>, named) /\ pc = "done")
      => /\ result.Errors = <<>>
         /\ result.GoCode = StructText(n, named)

RECURSIVE TabsAt(_, _)
\* the number of tab characters in text from offset pos on
TabsAt(text, pos) ==
  IF pos <= Len(text) /\ text[pos] = "\t" THEN 1 + TabsAt(text, pos + 1) ELSE 0

RECURSIVE LineEnd(_, _)
\* the offset of the line break that ends the line holding offset pos, or
\* one past the text
LineEnd(text, pos) ==
  IF pos > Len(text) \/ text[pos] = "\n" THEN pos ELSE LineEnd(text, pos + 1)

RECURSIVE Indented(_, _, _)
\* from the line starting at pos, inside depth blocks: every line starts
\* with as many tabs as blocks enclose it, a line ending in `{` enters a
\* block and a line starting with `}` is written at the depth at which its
\* block was entered; the text ends inside no block
Indented(text, pos, depth) ==
  IF pos > Len(text) THEN depth = 0
  ELSE Let([t \in {TabsAt(text, pos)}, e \in {LineEnd(text, pos)} |->
         Let([d \in {IF pos + t < e /\ text[pos + t] = "}"
                       THEN depth - 1 ELSE depth} |->
           /\ d >= 0
           /\ t = d
           /\ Indented(text, e + 1,
                       IF e > pos /\ text[e - 1] = "{" THEN d + 1 ELSE d)])])

\* the greatest number of tabs at the start of a line of text
MaxTabs(text) ==
  IF text = <<>> THEN 0
  ELSE CHOOSE m \in 0..Len(text) :
         /\ \E i \in 1..Len(text) :
              (i = 1 \/ text[i - 1] = "\n") /\ TabsAt(text, i) = m
         /\ \A i \in 1..Len(text) :
              (i = 1 \/ text[i - 1] = "\n") => TabsAt(text, i) <= m

\* C25: between statements and when Generate returns the indent counter is
\* 0, never negative; each block is left at the level at which it was
\* entered: every line of the text written so far starts with as many tabs
\* as blocks enclose it, and each closing brace stands at the depth of the
\* line that opened its block
C25_IndentDiscipline ==
  pc \in {"generate", "done"} =>
    /\ g.indentLevel = 0
    /\ \A i \in 1..Len(written) : Indented(written[i], 1, 0)
    /\ (pc = "done" /\ ~result.err) => Indented(result.GoCode, 1, 0)

\* the nested function has been generated: lines at depth 1, 2 and 3
C25_Witness ==
  /\ pc = "done"
  /\ input = SrcNestedIf
  /\ result.Errors = <<>>
  /\ MaxTabs(result.GoCode) = 3
  /\ g.indentLevel = 0

\* the node is a function called name whose body is the statements stmts
\* would be: one bare return, or nothing
IsFunctionWith(node, name, bareReturn) ==
  /\ node.kind = "FunctionStatement"
  /\ node.Name.Value = name
  /\ node.Body.kind = "BlockStatement"
  /\ IF bareReturn
       THEN /\ Len(node.Body.Statements) = 1
            /\ node.Body.Statements[1].kind = "ReturnStatement"
            /\ IsNil(node.Body.Statements[1].Value)
       ELSE node.Body.Statements = <<>>

\* C26: for a body whose last statement is a bare `return`, the function's
\* block ends with the current token on its own closing brace and holds just
\* that return, and the function written after the closing brace is a
\* sibling of the first, not a member of its block
C26_BlockEndsAtItsBrace ==
  input = SrcBareReturn =>
    /\ (pc = "parse" /\ program.Statements = <<>>) =>
          \A r \in {parseStatement(p)} :
             /\ r.p.curToken.Type = "}"
             /\ r.p.peekToken.Type = "FUNCTION"
             /\ IsFunctionWith(r.n, <<"f">>, TRUE)
    /\ (pc = "parse" /\ p.curToken.Type = "EOF") =>
          /\ Len(program.Statements) = 2
          /\ IsFunctionWith(program.Statements[1], <<"f">>, TRUE)
          /\ IsFunctionWith(program.Statements[2], <<"g">>, FALSE)

RECURSIVE Whole(_)
\* no child of n that the generator dereferences without a check is absent:
\* the expression of an expression statement, an if condition, the operand
\* of a unary or binary expression or an assignment, a callee, an argument,
\* an index and what it indexes, the object of a member access, an element,
\* a key, a value, a range collection, a body; a child the generator checks
\* (a return value, an initializer, a for clause, an else block) may be nil
\* but not a nil pointer
Whole(n) ==
  CASE n.kind \in {"nil", "nilptr"} -> FALSE
    [] n.kind = "ExpressionStatement" -> Whole(n.Expression)
    [] n.kind = "IfStatement" ->
         /\ Whole(n.Condition)
         /\ Whole(n.Consequence)
         /\ IsNil(n.Alternative) \/ Whole(n.Alternative)
    [] n.kind = "BlockStatement" ->
         \A i \in 1..Len(n.Statements) : Whole(n.Statements[i])
    [] n.kind = "FunctionStatement" -> Whole(n.Body)
    [] n.kind \in {"VariableStatement", "ReturnStatement"} ->
         IsNil(n.Value) \/ Whole(n.Value)
    [] n.kind = "ForStatement" ->
         /\ IsNil(n.Init) \/ Whole(n.Init)
         /\ IsNil(n.Condition) \/ Whole(n.Condition)
         /\ IsNil(n.Post) \/ Whole(n.Post)
         /\ Whole(n.Body)
    [] n.kind = "RangeStatement" -> Whole(n.Collection) /\ Whole(n.Body)
    [] n.kind = "UnaryExpression" -> Whole(n.Right)
    [] n.kind \in {"BinaryExpression", "AssignmentExpression"} ->
         Whole(n.Left) /\ Whole(n.Right)
    [] n.kind = "CallExpression" ->
         /\ Whole(n.Function)
         /\ \A i \in 1..Len(n.Arguments) : Whole(n.Arguments[i])
    [] n.kind = "IndexExpression" -> Whole(n.Left) /\ Whole(n.Index)
    [] n.kind = "MemberExpression" -> Whole(n.Object)
    [] n.kind = "ArrayLiteral" ->
         \A i \in 1..Len(n.Elements) : Whole(n.Elements[i])
    [] n.kind = "HashLiteral" ->
         \A i \in 1..Len(n.Pairs) :
            Whole(n.Pairs[i].key) /\ Whole(n.Pairs[i].value)
    [] OTHER -> TRUE

\* C27: when ParseProgram has returned without a diagnostic, no node of the
\* Program has an absent child where the generator dereferences it, and
\* Generate meets no nil node: it neither panics nor records an error
C27_NoAbsentChild ==
  (pc # "parse" /\ p.errors = <<>>) =>
    /\ \A i \in 1..Len(program.Statements) : Whole(program.Statements[i])
    /\ ~g.panicked
    /\ ~result.panicked
    /\ g.errors = <<>>

\* a function cut short inside its innermost block has been parsed without
\* a diagnostic, down to the call in the inner if, and generated
C27_Witness ==
  /\ pc = "done"
  /\ input = SubSeq(SrcNestedIf, 1, 30)
  /\ p.errors = <<>>
  /\ Len(program.Statements) = 1
  /\ program.Statements[1].Body.Statements[1].kind = "IfStatement"
  /\ program.Statements[1].Body.Statements[1].Consequence.Statements[1].kind
       = "IfStatement"
  /\ result.GoCode # <<>>

\* C28: a digit run the lexer hands over as one INT token is accepted by
\* the parser without a diagnostic and rendered as decimal digits of the
\* same base-10 value, leading zeros (`010`, `08`) included
C28_IntegerValueKept ==
  \A d \in DigitRuns :
    (input = IntSrc(d) /\ pc = "done") =>
      /\ result.Errors = <<>>
      /\ result.GoCode # <<>>
      /\ \A text \in {SubSeq(result.GoCode, 1, Len(result.GoCode) - 1)} :
           /\ text # <<>>
           /\ SpanDigits(text) = Len(text)
           /\ ValueInBase(text, 10, 0) = ValueInBase(d, 10, 0)

\* what the lexer has left: the runes it has not read, and the one in ch
CharsLeft(l) ==
  (Len(l.input) - l.readPosition)
  + (IF l.ch = Nul /\ l.readPosition >= Len(l.input) THEN 0 ELSE 1)

\* a measure of what the parser has left: it falls with every nextToken
\* made while the current token is not EOF, and is never negative
TokensLeft(q) ==
  3 * CharsLeft(q.l)
  + (IF q.curToken.Type # "EOF" THEN 1 ELSE 0)
  + (IF q.peekToken.Type # "EOF" THEN 1 ELSE 0)

\* an iteration of the top-level loop consumes at least one token
TopLevelLoopAdvances ==
  (pc = "parse" /\ p.curToken.Type # "EOF")
    => (pc' = "parse" /\ TokensLeft(p') < TokensLeft(p))

\* ParseProgram returns only with the current token at EOF
ReturnsOnlyAtEof ==
  (pc = "parse" /\ pc' # "parse") => p.curToken.Type = "EOF"

\* the nested loops, entered with the parser as it stands: a block, a hash
\* literal and an argument list consume at least one token, a struct body
\* and a parameter list give none back, and each of them returns
NestedLoopsAdvance ==
  (pc = "parse" /\ p.curToken.Type # "EOF") =>
    /\ TokensLeft(parseBlockStatement(p).p) < TokensLeft(p)
    /\ TokensLeft(parseHashLiteral(p).p) < TokensLeft(p)
    /\ TokensLeft(parseExpressionList(p, ")").p) < TokensLeft(p)
    /\ TokensLeft(parseStructStatement(p).p) <= TokensLeft(p)
    /\ TokensLeft(parseFunctionParameters(p).p) <= TokensLeft(p)
    /\ TokensLeft(parseExpression(p, LOWEST).p) <= TokensLeft(p)

\* C29: ParseProgram terminates: every iteration of its loop and of the
\* nested loops consumes at least one token of a finite supply, and it
\* returns only with the current token at EOF, whatever diagnostics were
\* recorded
C29_ParseProgramTerminates ==
  [][TopLevelLoopAdvances /\ ReturnsOnlyAtEof /\ NestedLoopsAdvance
     /\ TokensLeft(p) >= 0]_vars

\* ParseProgram has returned on a hash literal cut short after its first
\* pair, with diagnostics and the current token at EOF
C29_Witness ==
  /\ input = SubSeq(SrcLiterals, 1, 10)
  /\ pc = "done"
  /\ p.curToken.Type = "EOF"
  /\ p.errors # <<>>
  /\ result.err

RECURSIVE PrefixChain(_)
\* the operators of nested prefix expressions from the outermost in, then
\* the name of the operand
PrefixChain(n) ==
  IF n.kind = "UnaryExpression" THEN <<n.Operator>> \o PrefixChain(n.Right)
  ELSE IF n.kind = "Identifier" THEN <<n.Value>>
  ELSE <<<<n.kind>>>>

\* statements is the one statement `x = <o1><o2>a` as a tree
IsNestedPrefix(statements, o1, o2) ==
  /\ Len(statements) = 1
  /\ statements[1].kind = "ExpressionStatement"
  /\ statements[1].Expression.kind = "AssignmentExpression"
  /\ PrefixChain(statements[1].Expression.Right) = <<<<o1>>, <<o2>>, <<"a">>>>

\* C30: the text generated for nested prefix operators (`- -a`, `+ +a`,
\* `-(-a)`) parses again, without a diagnostic, to the same tree: the two
\* operators are not fused into one `--` or `++` token
C30_PrefixRoundTrip ==
  \A o1 \in PrefixOps, o2 \in PrefixOps, gr \in BOOLEAN :
    (input = UnarySrc(o1, o2, gr) /\ pc = "done") =>
      /\ result.Errors = <<>>
      /\ IsNestedPrefix(program.Statements, o1, o2)
      /\ \A r \in {ParseProgram(NewParser(NewLexer(result.GoCode)))} :
           /\ r.p.errors = <<>>
           /\ IsNestedPrefix(r.statements, o1, o2)
====
